---------------------------- MODULE Spec2Model ----------------------------
(***************************************************************************)
(* A model of the organization search of organizeSurvey:                   *)
(*   scripts/weighted_search.py  (tokenizer, check_eligibility,            *)
(*   calculate_relevance_score, search_clubs, search_clubs_supabase).      *)
(*                                                                         *)
(* Text is modelled as a sequence of one-character strings, so that        *)
(* str.split, re.split, str.strip, str.lower and the `in` substring test   *)
(* are computed character by character as Python computes them.           *)
(***************************************************************************)
EXTENDS Integers, Sequences, FiniteSets, TLC

VARIABLES
    query,           \* the query string of the invocation
    user_data,       \* the user profile of the invocation (NoUser: None or {})
    organizations,   \* the rows the data source holds: final.csv or the table in Supabase
    top_n,           \* the requested number of results
    pc,              \* "start" before the invocation, "done" after it
    query_keywords,  \* search_clubs' local query_keywords at return
    df_with_scores,  \* search_clubs' local df_with_scores at return (index labels)
    results,         \* the returned list
    calls,           \* how many times the scorer and the filter were called
    returned,        \* what a direct call of the filter or of the scorer returned
    locals           \* the scorer's local variables at its return

vars == <<query, user_data, organizations, top_n, pc, query_keywords, df_with_scores,
          results, calls, returned, locals>>

\* A user profile: `given` tells whether user_data is a non-empty dictionary
\* (`if user_data:`); a key the dictionary lacks reads as the empty string or
\* the empty list (user_data.get(key, default)).  careerFields is a list
\* (type "list") or a comma-separated string (type "str").
Profile(given, gender, race, classification, sexuality, religion, careerFields, major) ==
    [given |-> given, gender |-> gender, race |-> race,
     classification |-> classification, sexuality |-> sexuality,
     religion |-> religion, careerFields |-> careerFields, major |-> major]

\* the profile of an invocation without one: user_data is None or {}
NoUser ==
    Profile(FALSE, <<>>, <<>>, <<>>, <<>>, <<>>, [type |-> "list", value |-> <<>>], <<>>)

----------------------------------------------------------------------------
(* Python strings *)

\* str.isspace(): the characters str.strip() removes and the regex \s matches
Whitespace == {" ", "\t", "\n"}

\* the character class [,\s/\-] of the tokenizer's re.split
WordDelims == {",", "/", "-"} \cup Whitespace

\* one character of str.lower()
LowerChar(c) ==
    CASE c = "A" -> "a" [] c = "B" -> "b" [] c = "C" -> "c" [] c = "D" -> "d"
      [] c = "E" -> "e" [] c = "F" -> "f" [] c = "G" -> "g" [] c = "H" -> "h"
      [] c = "I" -> "i" [] c = "J" -> "j" [] c = "K" -> "k" [] c = "L" -> "l"
      [] c = "M" -> "m" [] c = "N" -> "n" [] c = "O" -> "o" [] c = "P" -> "p"
      [] c = "Q" -> "q" [] c = "R" -> "r" [] c = "S" -> "s" [] c = "T" -> "t"
      [] c = "U" -> "u" [] c = "V" -> "v" [] c = "W" -> "w" [] c = "X" -> "x"
      [] c = "Y" -> "y" [] c = "Z" -> "z" [] OTHER -> c

\* str.lower()
Lower(s) == [i \in 1..Len(s) |-> LowerChar(s[i])]

\* str.strip(): drop leading and trailing whitespace
RECURSIVE LStrip(_)
LStrip(s) == IF s # <<>> /\ Head(s) \in Whitespace THEN LStrip(Tail(s)) ELSE s

RECURSIVE RStrip(_)
RStrip(s) ==
    IF s # <<>> /\ s[Len(s)] \in Whitespace THEN RStrip(SubSeq(s, 1, Len(s) - 1)) ELSE s

Strip(s) == RStrip(LStrip(s))

\* `t in s` on strings: t is a contiguous substring of s
Contains(s, t) ==
    \E i \in 0..(Len(s) - Len(t)) : \A j \in 1..Len(t) : s[i + j] = t[j]

\* str.split(sep) for a one-character separator: empty pieces are kept
RECURSIVE SplitAcc(_, _, _)
SplitAcc(s, sep, cur) ==
    IF s = <<>> THEN <<cur>>
    ELSE IF Head(s) = sep THEN <<cur>> \o SplitAcc(Tail(s), sep, <<>>)
    ELSE SplitAcc(Tail(s), sep, Append(cur, Head(s)))

Split(s, sep) == SplitAcc(s, sep, <<>>)

\* re.split(r'[...]+', s): split on every maximal run of characters of delims;
\* a run at the start or the end of s leaves an empty piece there
RECURSIVE SkipRun(_, _)
SkipRun(s, delims) ==
    IF s # <<>> /\ Head(s) \in delims THEN SkipRun(Tail(s), delims) ELSE s

RECURSIVE ReSplitAcc(_, _, _)
ReSplitAcc(s, delims, cur) ==
    IF s = <<>> THEN <<cur>>
    ELSE IF Head(s) \in delims
         THEN <<cur>> \o ReSplitAcc(SkipRun(s, delims), delims, <<>>)
    ELSE ReSplitAcc(Tail(s), delims, Append(cur, Head(s)))

ReSplit(s, delims) == ReSplitAcc(s, delims, <<>>)

\* str.split() without argument: the whitespace-separated words, none empty
WhitespaceSplit(s) == SelectSeq(ReSplit(s, Whitespace), LAMBDA w : w # <<>>)

\* the concatenation of a sequence of sequences
RECURSIVE Flatten(_)
Flatten(ss) == IF ss = <<>> THEN <<>> ELSE Head(ss) \o Flatten(Tail(ss))

----------------------------------------------------------------------------
(* The tokenizer: search_clubs, lines 461-500 *)

\* the words the tokenizer refuses by name
RejectedWords == { <<>>, <<"n","a","n">>, <<"n","o","n","e">> }

\* lines 484-489: a word with an inner space also contributes its sub-words
subwords(word) ==
    IF Contains(word, <<" ">>)
    THEN SelectSeq([i \in 1..Len(WhitespaceSplit(word)) |->
                        Strip(WhitespaceSplit(word)[i])],
                   LAMBDA sw : sw # <<>> /\ Len(sw) > 2)
    ELSE <<>>

\* lines 476-489: what one piece of re.split adds to query_keywords
KeywordsOfWord(w) ==
    LET word == Strip(w) IN
    IF word # <<>> /\ word \notin RejectedWords /\ Len(word) > 1
    THEN <<word>> \o subwords(word)
    ELSE <<>>

\* a tokenizer whose re.split leaves the hyphen out of the character class
KeywordsOfSection_NoHyphen(s) ==
    LET section == Strip(s) IN
    IF section = <<>> THEN <<>>
    ELSE LET words == ReSplit(section, WordDelims \ {"-"}) IN
         Flatten([i \in 1..Len(words) |-> KeywordsOfWord(words[i])])

\* lines 467-489: what one '|' section adds to query_keywords
KeywordsOfSection(s) ==
    LET section == Strip(s) IN
    IF section = <<>> THEN <<>>
    ELSE LET words == ReSplit(section, WordDelims) IN
         Flatten([i \in 1..Len(words) |-> KeywordsOfWord(words[i])])

\* a tokenizer that removes duplicates by the keyword as written
RECURSIVE unique_keywords_CaseSensitive(_, _)
unique_keywords_CaseSensitive(kws, seen) ==
    IF kws = <<>> THEN <<>>
    ELSE LET kw == Head(kws) IN
         IF kw \notin seen /\ Len(kw) > 1
         THEN <<kw>> \o unique_keywords_CaseSensitive(Tail(kws), seen \cup {kw})
         ELSE unique_keywords_CaseSensitive(Tail(kws), seen)

\* lines 491-498: remove duplicates while preserving order
RECURSIVE unique_keywords(_, _)
unique_keywords(kws, seen) ==
    IF kws = <<>> THEN <<>>
    ELSE LET kw == Head(kws)
             kw_lower == Lower(kw)
         IN IF kw_lower \notin seen /\ Len(kw_lower) > 1
            THEN <<kw>> \o unique_keywords(Tail(kws), seen \cup {kw_lower})
            ELSE unique_keywords(Tail(kws), seen)

\* lines 465-500: the keyword list of a query
Tokenize(q) ==
    LET sections == Split(q, "|") IN
    unique_keywords(
        Flatten([i \in 1..Len(sections) |-> KeywordsOfSection(sections[i])]), {})


----------------------------------------------------------------------------
(* check_eligibility: lines 20-231 *)

\* any(w in text for w in words)
AnyIn(words, text) == \E i \in 1..Len(words) : Contains(text, words[i])

\* `x and x not in ['nan', 'none', '']`: the field holds a value
Present(x) == x # <<>> /\ x \notin { <<"n","a","n">>, <<"n","o","n","e">>, <<>> }

\* lines 27-33: careerFields as a list of lower-case trimmed strings; the profile
\* gives a list (type "list"), a comma-separated string (type "str") or
\* something else
CareerFieldsOf(cf) ==
    IF cf.type = "str"
    THEN LET parts == Split(cf.value, ",") IN
         [i \in 1..Len(SelectSeq(parts, LAMBDA f : Strip(f) # <<>>)) |->
             Lower(Strip(SelectSeq(parts, LAMBDA f : Strip(f) # <<>>)[i]))]
    ELSE IF cf.type = "list"
    THEN [i \in 1..Len(SelectSeq(cf.value, LAMBDA f : Strip(f) # <<>>)) |->
             Lower(Strip(SelectSeq(cf.value, LAMBDA f : Strip(f) # <<>>)[i]))]
    ELSE <<>>

FemaleWords == << <<"f","e","m","a","l","e">>, <<"w","o","m","e","n">>, <<"w","o","m","a","n">> >>
MaleWords == << <<"m","a","l","e">>, <<"m","e","n">>, <<"m","a","n">> >>
FemaleGenders == { <<"f","e","m","a","l","e">>, <<"w","o","m","a","n">> }
MaleGenders == { <<"m","a","l","e">>, <<"m","a","n">> }

\* a filter that does not look for gender-coded words in the name
GenderFilter_NoNameRule(user_gender, org_name, eligible_gender) ==
    IF user_gender = <<>> THEN TRUE
    ELSE
    Present(eligible_gender) =>
          IF eligible_gender = <<"a","l","l">> THEN TRUE
          ELSE IF AnyIn(FemaleWords, eligible_gender)
               THEN user_gender \in FemaleGenders
          ELSE IF AnyIn(MaleWords, eligible_gender)
               THEN user_gender \in MaleGenders
          ELSE \/ Contains(eligible_gender, user_gender)
               \/ Contains(user_gender, eligible_gender)
               \/ AnyIn(WhitespaceSplit(user_gender), eligible_gender)

\* lines 43-72: gender filtering; FALSE where the code returns False
GenderFilter(user_gender, org_name, eligible_gender) ==
    IF user_gender = <<>> THEN TRUE
    ELSE
    /\ AnyIn(FemaleWords, org_name) => user_gender \in FemaleGenders
    /\ AnyIn(MaleWords, org_name) => user_gender \in MaleGenders
    /\ Present(eligible_gender) =>
          IF eligible_gender = <<"a","l","l">> THEN TRUE
          ELSE IF AnyIn(FemaleWords, eligible_gender)
               THEN user_gender \in FemaleGenders
          ELSE IF AnyIn(MaleWords, eligible_gender)
               THEN user_gender \in MaleGenders
          ELSE \/ Contains(eligible_gender, user_gender)
               \/ Contains(user_gender, eligible_gender)
               \/ AnyIn(WhitespaceSplit(user_gender), eligible_gender)

\* lines 74-92: race filtering
RaceFilter(user_race, eligible_races) ==
    IF user_race # <<>> /\ Present(eligible_races)
          /\ ~ Contains(eligible_races, <<"a","l","l">>)
    THEN \/ Contains(user_race, <<"a","s","i","a","n">>) /\ Contains(eligible_races, <<"a","s","i","a","n">>)
         \/ /\ Contains(user_race, <<"s","o","u","t","h"," ","a","s","i","a","n">>)
            /\ \/ Contains(eligible_races, <<"s","o","u","t","h"," ","a","s","i","a","n">>)
               \/ Contains(eligible_races, <<"a","s","i","a","n">>)
         \/ Contains(user_race, <<"h","i","s","p","a","n","i","c">>) /\ Contains(eligible_races, <<"h","i","s","p","a","n","i","c">>)
         \/ Contains(user_race, <<"b","l","a","c","k">>) /\ Contains(eligible_races, <<"b","l","a","c","k">>)
         \/ Contains(user_race, <<"w","h","i","t","e">>) /\ Contains(eligible_races, <<"w","h","i","t","e">>)
         \/ Contains(eligible_races, user_race)
    ELSE TRUE

\* lines 94-128: classification filtering
ClassificationFilter(user_classification, org_name, typical_classifications, all_eligible_classifications) ==
    IF user_classification = <<>> THEN TRUE
    ELSE
    LET class_matches ==
            \/ /\ Present(typical_classifications)
               /\ Contains(typical_classifications, user_classification)
            \/ /\ Present(all_eligible_classifications)
               /\ Contains(all_eligible_classifications, user_classification)
    IN
    IF class_matches THEN TRUE
    ELSE IF Present(all_eligible_classifications) THEN FALSE
    ELSE IF Contains(org_name, <<"g","r","a","d","u","a","t","e">>) /\ Contains(org_name, <<"g","r","a","d","u","a","t","e"," ","s","t","u","d","e","n","t">>)
         THEN user_classification = <<"g","r","a","d","u","a","t","e">>
    ELSE IF Contains(org_name, <<"f","r","e","s","h","m","a","n">>) \/ Contains(org_name, <<"f","r","e","s","h","m","e","n">>)
         THEN user_classification = <<"f","r","e","s","h","m","a","n">>
    ELSE TRUE

\* lines 130-151: sexuality filtering
SexualityFilter(user_sexuality, eligible_sexuality) ==
    IF user_sexuality # <<>> /\ Present(eligible_sexuality)
    THEN \/ eligible_sexuality = <<"a","l","l">>
         \/ user_sexuality = <<"s","t","r","a","i","g","h","t">> /\ Contains(eligible_sexuality, <<"s","t","r","a","i","g","h","t">>)
         \/ user_sexuality = <<"g","a","y">> /\ Contains(eligible_sexuality, <<"g","a","y">>)
         \/ user_sexuality = <<"l","e","s","b","i","a","n">> /\ Contains(eligible_sexuality, <<"l","e","s","b","i","a","n">>)
         \/ Contains(eligible_sexuality, user_sexuality)
         \/ Contains(user_sexuality, eligible_sexuality)
    ELSE TRUE

\* lines 161-167: the religions, in the order of the dictionary, and their keywords
religious_keywords ==
    << [religion |-> <<"c","h","r","i","s","t","i","a","n">>,
        keywords |-> << <<"c","h","r","i","s","t","i","a","n">>, <<"c","h","r","i","s","t">>, <<"j","e","s","u","s">>, <<"b","i","b","l","e">>, <<"g","o","s","p","e","l">>,
                        <<"c","h","u","r","c","h">>, <<"m","i","n","i","s","t","r","y">>, <<"c","a","m","p","u","s"," ","c","r","u","s","a","d","e">>, <<"c","r","u">>,
                        <<"m","e","t","h","o","d","i","s","t">>, <<"c","a","t","h","o","l","i","c">>, <<"b","a","p","t","i","s","t">>, <<"p","r","e","s","b","y","t","e","r","i","a","n">>,
                        <<"l","u","t","h","e","r","a","n">>, <<"e","p","i","s","c","o","p","a","l">>, <<"o","r","t","h","o","d","o","x"," ","c","h","r","i","s","t","i","a","n">>,
                        <<"w","e","s","l","e","y">>, <<"i","n","t","e","r","v","a","r","s","i","t","y">>, <<"n","a","v","i","g","a","t","o","r","s">> >>],
       [religion |-> <<"m","u","s","l","i","m">>,
        keywords |-> << <<"m","u","s","l","i","m">>, <<"i","s","l","a","m">>, <<"i","s","l","a","m","i","c">>, <<"m","o","s","q","u","e">>, <<"m","a","s","j","i","d">>,
                        <<"r","a","m","a","d","a","n">>, <<"h","i","j","a","b">> >>],
       [religion |-> <<"j","e","w","i","s","h">>,
        keywords |-> << <<"j","e","w","i","s","h">>, <<"j","u","d","a","i","s","m">>, <<"h","i","l","l","e","l">>, <<"s","y","n","a","g","o","g","u","e">>,
                        <<"h","e","b","r","e","w">>, <<"s","h","a","b","b","a","t">>, <<"k","o","s","h","e","r">> >>],
       [religion |-> <<"h","i","n","d","u">>,
        keywords |-> << <<"h","i","n","d","u">>, <<"h","i","n","d","u","i","s","m">>, <<"t","e","m","p","l","e">>, <<"p","u","j","a">>, <<"v","e","d","a">>,
                        <<"y","o","g","a">>, <<"b","h","a","k","t","i">> >>],
       [religion |-> <<"b","u","d","d","h","i","s","t">>,
        keywords |-> << <<"b","u","d","d","h","i","s","t">>, <<"b","u","d","d","h","i","s","m">>, <<"b","u","d","d","h","a">>, <<"m","e","d","i","t","a","t","i","o","n">>,
                        <<"z","e","n">>, <<"d","h","a","r","m","a">> >>] >>

\* a religion rule that does not look whether the user states a religion
ReligionFilter_AnyUser(user_religion, org_name, org_bio) ==
    LET org_text == Lower(org_name \o <<" ">> \o org_bio)
        matching == { i \in 1..Len(religious_keywords) :
                        AnyIn(religious_keywords[i].keywords, org_text) }
        \* lines 170-174: the first religion of the dictionary that matches
        org_religion ==
            IF matching = {} THEN <<>>
            ELSE religious_keywords[CHOOSE i \in matching :
                                        \A h \in matching : i <= h].religion
        known == \E i \in 1..Len(religious_keywords) :
                     religious_keywords[i].religion = user_religion
    IN
    /\ ~ (org_religion # <<>> /\ org_religion # user_religion)
    /\ ~ (~ known /\ matching # {})

\* lines 153-188: religion filtering
ReligionFilter(user_religion, org_name, org_bio) ==
    IF user_religion = <<>> THEN TRUE
    ELSE
    LET org_text == Lower(org_name \o <<" ">> \o org_bio)
        matching == { i \in 1..Len(religious_keywords) :
                        AnyIn(religious_keywords[i].keywords, org_text) }
        \* lines 170-174: the first religion of the dictionary that matches
        org_religion ==
            IF matching = {} THEN <<>>
            ELSE religious_keywords[CHOOSE i \in matching :
                                        \A h \in matching : i <= h].religion
        known == \E i \in 1..Len(religious_keywords) :
                     religious_keywords[i].religion = user_religion
    IN
    /\ ~ (org_religion # <<>> /\ org_religion # user_religion)
    /\ ~ (~ known /\ matching # {})

\* lines 193-208: the user's career fields and the words that stand for them
career_field_keywords ==
    << [field |-> <<"e","n","g","i","n","e","e","r","i","n","g">>,
        keywords |-> << <<"e","n","g","i","n","e","e","r","i","n","g">>, <<"e","n","g","i","n","e","e","r">>, <<"t","e","c","h">> >>],
       [field |-> <<"t","e","c","h","n","o","l","o","g","y","/","c","o","m","p","u","t","e","r"," ","s","c","i","e","n","c","e">>,
        keywords |-> << <<"c","o","m","p","u","t","e","r">>, <<"t","e","c","h","n","o","l","o","g","y">>, <<"t","e","c","h">>, <<"c","s">>,
                        <<"p","r","o","g","r","a","m","m","i","n","g">>, <<"s","o","f","t","w","a","r","e">>, <<"c","o","d","i","n","g">>, <<"s","c","i","e","n","c","e">> >>],
       [field |-> <<"b","u","s","i","n","e","s","s","/","f","i","n","a","n","c","e">>,
        keywords |-> << <<"b","u","s","i","n","e","s","s">>, <<"f","i","n","a","n","c","e">>, <<"m","a","y","s">>, <<"a","c","c","o","u","n","t","i","n","g">>,
                        <<"e","c","o","n","o","m","i","c","s">> >>],
       [field |-> <<"m","e","d","i","c","i","n","e","/","h","e","a","l","t","h","c","a","r","e">>,
        keywords |-> << <<"m","e","d","i","c","i","n","e">>, <<"m","e","d","i","c","a","l">>, <<"h","e","a","l","t","h">>, <<"h","e","a","l","t","h","c","a","r","e">>,
                        <<"p","r","e","-","m","e","d">>, <<"p","r","e","m","e","d">>, <<"b","i","m","s">>, <<"b","i","o","l","o","g","y">> >>],
       [field |-> <<"l","a","w">>,
        keywords |-> << <<"l","a","w">>, <<"l","e","g","a","l">>, <<"p","r","e","-","l","a","w">>, <<"p","r","e","l","a","w">> >>],
       [field |-> <<"e","d","u","c","a","t","i","o","n">>,
        keywords |-> << <<"e","d","u","c","a","t","i","o","n">>, <<"t","e","a","c","h","i","n","g">>, <<"t","e","a","c","h">> >>],
       [field |-> <<"a","r","t","s","/","d","e","s","i","g","n">>,
        keywords |-> << <<"a","r","t">>, <<"a","r","t","s">>, <<"d","e","s","i","g","n">>, <<"g","r","a","p","h","i","c">> >>],
       [field |-> <<"s","c","i","e","n","c","e","/","r","e","s","e","a","r","c","h">>,
        keywords |-> << <<"s","c","i","e","n","c","e">>, <<"r","e","s","e","a","r","c","h">>, <<"c","h","e","m","i","s","t","r","y">>, <<"p","h","y","s","i","c","s">> >>],
       [field |-> <<"a","g","r","i","c","u","l","t","u","r","e">>,
        keywords |-> << <<"a","g","r","i","c","u","l","t","u","r","e">>, <<"a","g">>, <<"a","g","r","i">> >>],
       [field |-> <<"c","o","m","m","u","n","i","c","a","t","i","o","n","/","m","e","d","i","a">>,
        keywords |-> << <<"c","o","m","m","u","n","i","c","a","t","i","o","n">>, <<"m","e","d","i","a">>, <<"j","o","u","r","n","a","l","i","s","m">>, <<"j","o","u","r","n","a","l">> >>],
       [field |-> <<"s","o","c","i","a","l"," ","w","o","r","k">>,
        keywords |-> << <<"s","o","c","i","a","l"," ","w","o","r","k">>, <<"s","o","c","i","a","l">> >>],
       [field |-> <<"g","o","v","e","r","n","m","e","n","t","/","p","u","b","l","i","c"," ","s","e","r","v","i","c","e">>,
        keywords |-> << <<"g","o","v","e","r","n","m","e","n","t">>, <<"p","u","b","l","i","c">>, <<"p","u","b","l","i","c"," ","s","e","r","v","i","c","e">>,
                        <<"p","o","l","i","t","i","c","a","l">>, <<"p","o","l","i","t","i","c","s">> >>],
       [field |-> <<"s","p","o","r","t","s","/","f","i","t","n","e","s","s">>,
        keywords |-> << <<"s","p","o","r","t","s">>, <<"f","i","t","n","e","s","s">>, <<"a","t","h","l","e","t","i","c">>, <<"a","t","h","l","e","t","i","c","s">>,
                        <<"r","e","c","r","e","a","t","i","o","n">> >>],
       [field |-> <<"h","o","s","p","i","t","a","l","i","t","y","/","t","o","u","r","i","s","m">>,
        keywords |-> << <<"h","o","s","p","i","t","a","l","i","t","y">>, <<"t","o","u","r","i","s","m">>, <<"h","o","t","e","l">>, <<"r","e","s","t","a","u","r","a","n","t">> >>] >>

\* a career rule without the table of career fields
CareerFilter_DirectOnly(user_career_fields, typical_majors) ==
    IF Present(typical_majors) /\ user_career_fields # <<>>
    THEN \E c \in 1..Len(user_career_fields) :
            Contains(typical_majors, user_career_fields[c])
    ELSE TRUE

\* lines 190-229: career field filtering
CareerFilter(user_career_fields, typical_majors) ==
    IF Present(typical_majors) /\ user_career_fields # <<>>
    THEN \E c \in 1..Len(user_career_fields) :
            \/ Contains(typical_majors, user_career_fields[c])
            \/ \E k \in 1..Len(career_field_keywords) :
                  /\ career_field_keywords[k].field = user_career_fields[c]
                  /\ AnyIn(career_field_keywords[k].keywords, typical_majors)
    ELSE TRUE

\* lines 20-231: whether the organization may be shown to the user
check_eligibility(org_row, user) ==
    LET user_gender == Lower(Strip(user.gender))
        user_race == Lower(Strip(user.race))
        user_classification == Lower(Strip(user.classification))
        user_sexuality == Lower(Strip(user.sexuality))
        user_religion == Lower(Strip(user.religion))
        user_career_fields == CareerFieldsOf(user.careerFields)
        org_name == Lower(org_row.name)
        eligible_gender == Lower(Strip(org_row.eligible_gender))
        eligible_races == Lower(Strip(org_row.eligible_races))
        typical_classifications == Lower(Strip(org_row.typical_classifications))
        all_eligible_classifications ==
            Lower(Strip(org_row.all_eligible_classifications))
        eligible_sexuality == Lower(Strip(org_row.eligible_sexuality))
        typical_majors == Lower(Strip(org_row.typical_majors))
    IN
    /\ GenderFilter(user_gender, org_name, eligible_gender)
    /\ RaceFilter(user_race, eligible_races)
    /\ ClassificationFilter(user_classification, org_name,
                            typical_classifications, all_eligible_classifications)
    /\ SexualityFilter(user_sexuality, eligible_sexuality)
    /\ ReligionFilter(user_religion, org_row.name, org_row.bio)
    /\ CareerFilter(user_career_fields, typical_majors)

----------------------------------------------------------------------------
(* check_eligibility of scripts/vector_search.py, lines 31-148: the filter  *)
(* of search_organizations.  Its race rule is that of the filter above; it  *)
(* has no religion rule.                                                    *)

\* vector_search.py lines 52-66: gender filtering
VectorGenderFilter(user_gender, org_name, eligible_gender) ==
    IF user_gender = <<>> THEN TRUE
    ELSE
    /\ AnyIn(FemaleWords, org_name) => user_gender \in FemaleGenders
    /\ AnyIn(MaleWords, org_name) => user_gender \in MaleGenders
    /\ Present(eligible_gender) =>
          /\ AnyIn(FemaleWords, eligible_gender) => user_gender \in FemaleGenders
          /\ AnyIn(MaleWords, eligible_gender) => user_gender \in MaleGenders

\* vector_search.py lines 87-98: classification filtering
VectorClassificationFilter(user_classification, typical_classifications, all_eligible_classifications) ==
    IF user_classification = <<>> THEN TRUE
    ELSE
    LET class_matches ==
            \/ /\ Present(typical_classifications)
               /\ Contains(typical_classifications, user_classification)
            \/ /\ Present(all_eligible_classifications)
               /\ Contains(all_eligible_classifications, user_classification)
    IN ~ (~ class_matches /\ Present(typical_classifications))

\* vector_search.py lines 100-103: sexuality filtering
VectorSexualityFilter(user_sexuality, eligible_sexuality) ==
    IF user_sexuality # <<>> /\ user_sexuality # <<"s","t","r","a","i","g","h","t">>
          /\ Present(eligible_sexuality)
    THEN Contains(eligible_sexuality, user_sexuality)
    ELSE TRUE

\* vector_search.py lines 108-123: the user's career fields and the words
\* that stand for them
career_to_major_map ==
    << [field |-> <<"e","n","g","i","n","e","e","r","i","n","g">>,
        keywords |-> << <<"e","n","g","i","n","e","e","r","i","n","g">>, <<"e","n","g","i","n","e","e","r">> >>],
       [field |-> <<"b","u","s","i","n","e","s","s","/","f","i","n","a","n","c","e">>,
        keywords |-> << <<"b","u","s","i","n","e","s","s">>, <<"f","i","n","a","n","c","e">>, <<"a","c","c","o","u","n","t","i","n","g">>, <<"e","c","o","n","o","m","i","c","s">>,
                        <<"m","a","y","s">> >>],
       [field |-> <<"m","e","d","i","c","i","n","e","/","h","e","a","l","t","h","c","a","r","e">>,
        keywords |-> << <<"m","e","d","i","c","i","n","e">>, <<"m","e","d","i","c","a","l">>, <<"h","e","a","l","t","h">>, <<"p","r","e","-","m","e","d">>,
                        <<"p","r","e","m","e","d">>, <<"b","i","m","s">>, <<"b","i","o","l","o","g","y">> >>],
       [field |-> <<"l","a","w">>,
        keywords |-> << <<"l","a","w">>, <<"p","r","e","-","l","a","w">>, <<"p","r","e","l","a","w">>, <<"l","e","g","a","l">> >>],
       [field |-> <<"e","d","u","c","a","t","i","o","n">>,
        keywords |-> << <<"e","d","u","c","a","t","i","o","n">>, <<"t","e","a","c","h","i","n","g">>, <<"t","e","a","c","h">> >>],
       [field |-> <<"a","r","t","s","/","d","e","s","i","g","n">>,
        keywords |-> << <<"a","r","t">>, <<"a","r","t","s">>, <<"d","e","s","i","g","n">>, <<"g","r","a","p","h","i","c">> >>],
       [field |-> <<"t","e","c","h","n","o","l","o","g","y","/","c","o","m","p","u","t","e","r"," ","s","c","i","e","n","c","e">>,
        keywords |-> << <<"c","o","m","p","u","t","e","r"," ","s","c","i","e","n","c","e">>, <<"c","s">>, <<"t","e","c","h","n","o","l","o","g","y">>, <<"t","e","c","h">>,
                        <<"p","r","o","g","r","a","m","m","i","n","g">>, <<"s","o","f","t","w","a","r","e">> >>],
       [field |-> <<"s","c","i","e","n","c","e","/","r","e","s","e","a","r","c","h">>,
        keywords |-> << <<"s","c","i","e","n","c","e">>, <<"r","e","s","e","a","r","c","h">>, <<"c","h","e","m","i","s","t","r","y">>, <<"p","h","y","s","i","c","s">>,
                        <<"b","i","o","l","o","g","y">> >>],
       [field |-> <<"a","g","r","i","c","u","l","t","u","r","e">>,
        keywords |-> << <<"a","g","r","i","c","u","l","t","u","r","e">>, <<"a","g">>, <<"a","g","r","i">> >>],
       [field |-> <<"c","o","m","m","u","n","i","c","a","t","i","o","n","/","m","e","d","i","a">>,
        keywords |-> << <<"c","o","m","m","u","n","i","c","a","t","i","o","n">>, <<"m","e","d","i","a">>, <<"j","o","u","r","n","a","l","i","s","m">>, <<"j","o","u","r","n","a","l">> >>],
       [field |-> <<"s","o","c","i","a","l"," ","w","o","r","k">>,
        keywords |-> << <<"s","o","c","i","a","l"," ","w","o","r","k">>, <<"s","o","c","i","a","l">> >>],
       [field |-> <<"g","o","v","e","r","n","m","e","n","t","/","p","u","b","l","i","c"," ","s","e","r","v","i","c","e">>,
        keywords |-> << <<"g","o","v","e","r","n","m","e","n","t">>, <<"p","u","b","l","i","c"," ","s","e","r","v","i","c","e">>, <<"p","u","b","l","i","c">>,
                        <<"p","o","l","i","t","i","c","a","l">>, <<"p","o","l","i","t","i","c","s">> >>],
       [field |-> <<"s","p","o","r","t","s","/","f","i","t","n","e","s","s">>,
        keywords |-> << <<"s","p","o","r","t","s">>, <<"f","i","t","n","e","s","s">>, <<"a","t","h","l","e","t","i","c">>, <<"a","t","h","l","e","t","i","c","s">> >>],
       [field |-> <<"h","o","s","p","i","t","a","l","i","t","y","/","t","o","u","r","i","s","m">>,
        keywords |-> << <<"h","o","s","p","i","t","a","l","i","t","y">>, <<"t","o","u","r","i","s","m">>, <<"h","o","t","e","l">>, <<"r","e","s","t","a","u","r","a","n","t">> >>] >>

\* vector_search.py lines 105-146: career field filtering
VectorCareerFilter(user_career_fields, typical_majors) ==
    IF Present(typical_majors) /\ user_career_fields # <<>>
    THEN \E c \in 1..Len(user_career_fields) :
            \/ Contains(typical_majors, user_career_fields[c])
            \/ \E k \in 1..Len(career_to_major_map) :
                  /\ career_to_major_map[k].field = user_career_fields[c]
                  /\ AnyIn(career_to_major_map[k].keywords, typical_majors)
    ELSE TRUE

\* vector_search.py lines 31-148: whether the organization may be shown to
\* the user
vector_check_eligibility(org_row, user) ==
    LET user_gender == Lower(Strip(user.gender))
        user_race == Lower(Strip(user.race))
        user_classification == Lower(Strip(user.classification))
        user_sexuality == Lower(Strip(user.sexuality))
        user_career_fields == CareerFieldsOf(user.careerFields)
        org_name == Lower(org_row.name)
        eligible_gender == Lower(Strip(org_row.eligible_gender))
        eligible_races == Lower(Strip(org_row.eligible_races))
        typical_classifications == Lower(Strip(org_row.typical_classifications))
        all_eligible_classifications ==
            Lower(Strip(org_row.all_eligible_classifications))
        eligible_sexuality == Lower(Strip(org_row.eligible_sexuality))
        typical_majors == Lower(Strip(org_row.typical_majors))
    IN
    /\ VectorGenderFilter(user_gender, org_name, eligible_gender)
    /\ RaceFilter(user_race, eligible_races)
    /\ VectorClassificationFilter(user_classification, typical_classifications,
                                  all_eligible_classifications)
    /\ VectorSexualityFilter(user_sexuality, eligible_sexuality)
    /\ VectorCareerFilter(user_career_fields, typical_majors)

----------------------------------------------------------------------------
(* Python floats.  The score of calculate_relevance_score is accumulated in *)
(* IEEE 754 binary64: every `+=` and `*=` rounds its exact result to 53     *)
(* significant bits, ties to even.  A float is kept here as its exact       *)
(* value in units of 2^-65, written as 6 digits of base 2^13, the least     *)
(* significant first; the sixth digit is the integer part.  The values the  *)
(* scorer computes are 0 or lie between 2^-12 and 2^13, which is the range  *)
(* this form holds exactly.                                                 *)

Limb == 2^13

DoubleZero == <<0, 0, 0, 0, 0, 0>>

\* float(n) of a small non-negative int
FromInt(n) == <<0, 0, 0, 0, 0, n>>

\* the digits of a number whose digits may exceed the base
RECURSIVE Carry(_, _)
Carry(ds, c) ==
    IF ds = <<>> THEN (IF c = 0 THEN <<>> ELSE <<c % Limb>> \o Carry(<<>>, c \div Limb))
    ELSE <<(Head(ds) + c) % Limb>> \o Carry(Tail(ds), (Head(ds) + c) \div Limb)

RECURSIVE BitsOf(_)
BitsOf(n) == IF n = 0 THEN 0 ELSE 1 + BitsOf(n \div 2)

\* the number of significant bits of a digit sequence
RECURSIVE BitLen(_)
BitLen(ds) ==
    IF ds = <<>> THEN 0
    ELSE IF ds[Len(ds)] = 0 THEN BitLen(SubSeq(ds, 1, Len(ds) - 1))
    ELSE 13 * (Len(ds) - 1) + BitsOf(ds[Len(ds)])

\* bit i (from 0) of a digit sequence
Bit(ds, i) ==
    IF (i \div 13) + 1 > Len(ds) THEN 0
    ELSE (ds[(i \div 13) + 1] \div 2^(i % 13)) % 2

\* whether rounding away the lowest `shift` bits rounds up: to nearest, ties
\* to even
RoundsUp(ds, shift) ==
    /\ Bit(ds, shift - 1) = 1
    /\ \/ \E j \in 0..(shift - 2) : Bit(ds, j) = 1
       \/ Bit(ds, shift) = 1

\* the lowest `shift` bits rounded away
RoundAt(ds, shift) ==
    Carry([i \in 1..Len(ds) |->
              IF i < (shift \div 13) + 1 THEN 0
              ELSE IF i = (shift \div 13) + 1
              THEN ds[i] - (ds[i] % 2^(shift % 13))
                   + (IF RoundsUp(ds, shift) THEN 2^(shift % 13) ELSE 0)
              ELSE ds[i]], 0)

\* round to 53 significant bits
Round53(ds) == IF BitLen(ds) <= 53 THEN ds ELSE RoundAt(ds, BitLen(ds) - 53)

\* a + b of two floats
DoubleAdd(a, b) ==
    IF b = DoubleZero THEN a
    ELSE IF a = DoubleZero THEN b
    ELSE Round53(Carry([i \in 1..6 |-> a[i] + b[i]], 0))

RECURSIVE SumSeq(_)
SumSeq(ns) == IF ns = <<>> THEN 0 ELSE Head(ns) + SumSeq(Tail(ns))

\* a * b of two floats: the exact product is in units of 2^-130; rounded, its
\* five lowest digits are 0 and what remains is in units of 2^-65
DoubleMul(a, b) ==
    LET columns == [k \in 1..11 |->
                       SumSeq([i \in 1..6 |->
                                  IF k + 1 - i \in 1..6 THEN a[i] * b[k + 1 - i] ELSE 0])]
        product == Round53(Carry(columns, 0))
    IN [i \in 1..6 |-> IF i + 5 <= Len(product) THEN product[i + 5] ELSE 0]

\* a >= b of two floats
RECURSIVE DoubleGeq(_, _)
DoubleGeq(a, b) ==
    IF a = <<>> THEN TRUE
    ELSE IF a[Len(a)] # b[Len(b)] THEN a[Len(a)] > b[Len(b)]
    ELSE DoubleGeq(SubSeq(a, 1, Len(a) - 1), SubSeq(b, 1, Len(b) - 1))

\* int(x) of a non-negative float
DoubleToInt(a) == a[6]

\* the floats that the literals of the source denote
Double_1_8 == <<0, 3277, 1638, 4915, 6553, 1>>
Double_1_3 == <<0, 3277, 1638, 4915, 2457, 1>>
Double_1_2 == <<0, 4915, 6553, 3276, 1638, 1>>
Double_1_1 == <<0, 6554, 3276, 1638, 819, 1>>
Double_1_0 == <<0, 0, 0, 0, 0, 1>>
Double_0_8 == <<0, 3277, 1638, 4915, 6553, 0>>
Double_0_7 == <<0, 4915, 6553, 3276, 5734, 0>>
Double_0_6 == <<4096, 6553, 3276, 1638, 4915, 0>>
Double_0_4 == <<4096, 1638, 4915, 6553, 3276, 0>>
Double_0_3 == <<6144, 3276, 1638, 4915, 2457, 0>>

----------------------------------------------------------------------------
(* calculate_relevance_score: lines 233-451 *)

\* lines 259-263
career_keywords ==
    << <<"e","n","g","i","n","e","e","r","i","n","g">>, <<"b","u","s","i","n","e","s","s">>, <<"f","i","n","a","n","c","e">>, <<"m","e","d","i","c","i","n","e">>, <<"h","e","a","l","t","h","c","a","r","e">>,
       <<"l","a","w">>, <<"e","d","u","c","a","t","i","o","n">>, <<"a","r","t","s">>, <<"d","e","s","i","g","n">>, <<"t","e","c","h","n","o","l","o","g","y">>, <<"c","o","m","p","u","t","e","r">>,
       <<"s","c","i","e","n","c","e">>, <<"r","e","s","e","a","r","c","h">>, <<"a","g","r","i","c","u","l","t","u","r","e">>, <<"c","o","m","m","u","n","i","c","a","t","i","o","n">>, <<"m","e","d","i","a">>,
       <<"s","o","c","i","a","l">>, <<"w","o","r","k">>, <<"g","o","v","e","r","n","m","e","n","t">>, <<"p","u","b","l","i","c">>, <<"s","e","r","v","i","c","e">>, <<"s","p","o","r","t","s">>,
       <<"f","i","t","n","e","s","s">>, <<"h","o","s","p","i","t","a","l","i","t","y">>, <<"t","o","u","r","i","s","m">> >>

\* lines 265-266
activity_keywords ==
    << <<"v","o","l","u","n","t","e","e","r","i","n","g">>, <<"s","o","c","i","a","l">>, <<"e","v","e","n","t","s">>, <<"p","r","o","j","e","c","t","s">>, <<"c","o","m","p","e","t","i","t","i","o","n","s">>,
       <<"w","o","r","k","s","h","o","p","s">>, <<"t","r","i","p","s">> >>

\* lines 268-271
demographic_keywords ==
    << <<"m","a","l","e">>, <<"f","e","m","a","l","e">>, <<"a","s","i","a","n">>, <<"w","h","i","t","e">>, <<"b","l","a","c","k">>, <<"h","i","s","p","a","n","i","c">>,
       <<"f","r","e","s","h","m","a","n">>, <<"s","o","p","h","o","m","o","r","e">>, <<"j","u","n","i","o","r">>, <<"s","e","n","i","o","r">>, <<"g","r","a","d","u","a","t","e">>,
       <<"c","h","r","i","s","t","i","a","n">>, <<"m","u","s","l","i","m">>, <<"j","e","w","i","s","h">>, <<"h","i","n","d","u">>, <<"b","u","d","d","h","i","s","t">>,
       <<"c","a","m","p","u","s">>, <<"o","f","f","-","c","a","m","p","u","s">>, <<"o","n","-","c","a","m","p","u","s">> >>

\* lines 274-282: the weight of a keyword
get_keyword_weight(keyword) ==
    LET kw_lower == Lower(keyword) IN
    IF \E i \in 1..Len(career_keywords) : Contains(kw_lower, career_keywords[i])
    THEN Double_1_2
    ELSE IF \E i \in 1..Len(activity_keywords) :
                Contains(kw_lower, activity_keywords[i])
    THEN Double_1_2
    ELSE IF \E i \in 1..Len(demographic_keywords) :
                Contains(kw_lower, demographic_keywords[i])
    THEN Double_0_3
    ELSE Double_1_0

\* lines 285-292
FIELD_WEIGHTS ==
    [name |-> 12, typical_majors |-> 10, typical_activities |-> 8,
     club_culture_style |-> 4, bio |-> 2, bio_phrase |-> 6]

\* lines 245-251: the user's career fields as the scorer reads them
ScorerCareerFields(user) ==
    IF ~ user.given THEN <<>>
    ELSE IF user.careerFields.type = "list"
    THEN [i \in 1..Len(SelectSeq(user.careerFields.value, LAMBDA f : f # <<>>)) |->
             Lower(SelectSeq(user.careerFields.value, LAMBDA f : f # <<>>)[i])]
    ELSE IF user.careerFields.type = "str"
    THEN CareerFieldsOf(user.careerFields)
    ELSE <<>>

\* lines 253-256: the user's major
ScorerMajor(user) == IF ~ user.given THEN <<>> ELSE Lower(Strip(user.major))

\* lines 296-309: the bonus for the user's major
major_match_bonus(user_major, typical_majors) ==
    IF user_major # <<>> /\ typical_majors # <<>> /\ typical_majors # <<"n","a","n">>
    THEN IF Contains(typical_majors, user_major)
         THEN DoubleMul(FromInt(FIELD_WEIGHTS.typical_majors), Double_1_8)
         ELSE IF \E i \in 1..Len(WhitespaceSplit(user_major)) :
                    /\ Len(WhitespaceSplit(user_major)[i]) > 3
                    /\ Contains(typical_majors, WhitespaceSplit(user_major)[i])
         THEN DoubleMul(FromInt(FIELD_WEIGHTS.typical_majors), Double_1_3)
         ELSE IF \E i \in 1..Len(Split(typical_majors, ",")) :
                    /\ Len(Strip(Split(typical_majors, ",")[i])) > 3
                    /\ Contains(user_major, Split(typical_majors, ",")[i])
         THEN DoubleMul(FromInt(FIELD_WEIGHTS.typical_majors), Double_1_1)
         ELSE DoubleZero
    ELSE DoubleZero

\* lines 318: the organization's career fields
org_career_fields(typical_majors) ==
    LET parts == SelectSeq(Split(typical_majors, ","), LAMBDA f : Strip(f) # <<>>)
    IN [i \in 1..Len(parts) |-> Lower(Strip(parts[i]))]

\* lines 321-334: what one career field of the user adds to the score; 0 when
\* it matches nothing
CareerFieldScore(user_career, typical_majors) ==
    LET fields == org_career_fields(typical_majors) IN
    IF \E i \in 1..Len(fields) : fields[i] = user_career
    THEN DoubleMul(FromInt(FIELD_WEIGHTS.typical_majors), Double_0_8)
    ELSE IF \E i \in 1..Len(fields) :
                Contains(fields[i], user_career) \/ Contains(user_career, fields[i])
    THEN DoubleMul(FromInt(FIELD_WEIGHTS.typical_majors), Double_0_6)
    ELSE IF AnyIn(WhitespaceSplit(user_career), typical_majors)
    THEN DoubleMul(FromInt(FIELD_WEIGHTS.typical_majors), Double_0_4)
    ELSE DoubleZero

\* lines 315-334: what the user's career fields add to the score, one after
\* the other, and the number of them that matched
CareerFieldsScore(user_career_fields, typical_majors) ==
    IF user_career_fields # <<>> /\ typical_majors # <<>> /\ typical_majors # <<"n","a","n">>
    THEN LET each == [i \in 1..Len(user_career_fields) |->
                         CareerFieldScore(user_career_fields[i], typical_majors)]
         IN [added |-> each,
             career_matches |-> Len(SelectSeq(each, LAMBDA x : x # DoubleZero))]
    ELSE [added |-> <<>>, career_matches |-> 0]

\* lines 338-344: the words of the organization's name
name_words(name) ==
    SelectSeq(ReSplit(name, {",", "-", "&"} \cup Whitespace),
              LAMBDA part : part # <<>> /\ Len(part) > 2)

\* lines 391-397: some two consecutive words of the bio, joined by a space,
\* contain the keyword
BioPhraseMatch(keyword_lower, bio) ==
    LET bio_words == WhitespaceSplit(bio) IN
    \E i \in 1..(Len(bio_words) - 1) :
        Contains(bio_words[i] \o <<" ">> \o bio_words[i + 1], keyword_lower)

\* a scorer that gives the bio addend to every organization without majors
KeywordScore_BioUnread(keyword, name, typical_majors, typical_activities, club_culture_style, bio) ==
    LET keyword_lower == Strip(Lower(keyword))
        weight == get_keyword_weight(keyword)
        in_name == \/ Contains(name, keyword_lower)
                   \/ \E i \in 1..Len(name_words(name)) :
                         Contains(name_words(name)[i], keyword_lower)
        in_majors == /\ typical_majors # <<>> /\ typical_majors # <<"n","a","n">>
                     /\ Contains(typical_majors, keyword_lower)
        in_activities == /\ typical_activities # <<>>
                         /\ typical_activities # <<"n","a","n">>
                         /\ Contains(typical_activities, keyword_lower)
        in_culture == /\ club_culture_style # <<>> /\ club_culture_style # <<"n","a","n">>
                      /\ Contains(club_culture_style, keyword_lower)
        in_bio == Contains(bio, keyword_lower) \/ typical_majors = <<>>
        bio_score == IF typical_majors = <<"n","a","n">> \/ typical_majors = <<>>
                     THEN 8 ELSE FIELD_WEIGHTS.bio
        in_phrase == Len(keyword_lower) > 4 /\ BioPhraseMatch(keyword_lower, bio)
        Times(field_weight) == DoubleMul(FromInt(field_weight), weight)
    IN
    IF keyword_lower = <<>> \/ Len(keyword_lower) < 2
    THEN [added |-> <<>>, matched |-> 0, career |-> 0, activity |-> 0]
    ELSE [added |->
              << IF in_name THEN Times(FIELD_WEIGHTS.name) ELSE DoubleZero,
                 IF in_majors THEN Times(FIELD_WEIGHTS.typical_majors) ELSE DoubleZero,
                 IF in_activities THEN Times(FIELD_WEIGHTS.typical_activities)
                                  ELSE DoubleZero,
                 IF in_culture THEN Times(FIELD_WEIGHTS.club_culture_style)
                               ELSE DoubleZero,
                 IF in_bio THEN Times(bio_score) ELSE DoubleZero,
                 IF in_phrase THEN Times(FIELD_WEIGHTS.bio_phrase) ELSE DoubleZero >>,
          matched |-> IF in_name \/ in_majors \/ in_activities \/ in_culture \/ in_bio
                      THEN 1 ELSE 0,
          career |-> IF in_majors /\ DoubleGeq(weight, Double_1_2) THEN 1 ELSE 0,
          activity |-> IF in_activities /\ DoubleGeq(weight, Double_1_2) THEN 1 ELSE 0]

\* lines 350-400: what one keyword adds to the score, field after field,
\* whether it matched a field, and the matches it counts for career and
\* activity
KeywordScore(keyword, name, typical_majors, typical_activities, club_culture_style, bio) ==
    LET keyword_lower == Strip(Lower(keyword))
        weight == get_keyword_weight(keyword)
        in_name == \/ Contains(name, keyword_lower)
                   \/ \E i \in 1..Len(name_words(name)) :
                         Contains(name_words(name)[i], keyword_lower)
        in_majors == /\ typical_majors # <<>> /\ typical_majors # <<"n","a","n">>
                     /\ Contains(typical_majors, keyword_lower)
        in_activities == /\ typical_activities # <<>>
                         /\ typical_activities # <<"n","a","n">>
                         /\ Contains(typical_activities, keyword_lower)
        in_culture == /\ club_culture_style # <<>> /\ club_culture_style # <<"n","a","n">>
                      /\ Contains(club_culture_style, keyword_lower)
        in_bio == Contains(bio, keyword_lower)
        bio_score == IF typical_majors = <<"n","a","n">> \/ typical_majors = <<>>
                     THEN 8 ELSE FIELD_WEIGHTS.bio
        in_phrase == Len(keyword_lower) > 4 /\ BioPhraseMatch(keyword_lower, bio)
        Times(field_weight) == DoubleMul(FromInt(field_weight), weight)
    IN
    IF keyword_lower = <<>> \/ Len(keyword_lower) < 2
    THEN [added |-> <<>>, matched |-> 0, career |-> 0, activity |-> 0]
    ELSE [added |->
              << IF in_name THEN Times(FIELD_WEIGHTS.name) ELSE DoubleZero,
                 IF in_majors THEN Times(FIELD_WEIGHTS.typical_majors) ELSE DoubleZero,
                 IF in_activities THEN Times(FIELD_WEIGHTS.typical_activities)
                                  ELSE DoubleZero,
                 IF in_culture THEN Times(FIELD_WEIGHTS.club_culture_style)
                               ELSE DoubleZero,
                 IF in_bio THEN Times(bio_score) ELSE DoubleZero,
                 IF in_phrase THEN Times(FIELD_WEIGHTS.bio_phrase) ELSE DoubleZero >>,
          matched |-> IF in_name \/ in_majors \/ in_activities \/ in_culture \/ in_bio
                      THEN 1 ELSE 0,
          career |-> IF in_majors /\ DoubleGeq(weight, Double_1_2) THEN 1 ELSE 0,
          activity |-> IF in_activities /\ DoubleGeq(weight, Double_1_2) THEN 1 ELSE 0]

\* ' '.join(words)
RECURSIVE JoinSpace(_)
JoinSpace(words) ==
    IF words = <<>> THEN <<>>
    ELSE IF Len(words) = 1 THEN Head(words)
    ELSE Head(words) \o <<" ">> \o JoinSpace(Tail(words))

\* lines 402-445: the bonuses, in the order in which they are added
Bonuses(keywords, name, typical_majors, typical_activities, bio, career_matches, activity_matches, matches_count) ==
    LET query_text == Lower(JoinSpace(keywords))
        org_text == Lower(name \o <<" ">> \o typical_majors \o <<" ">>
                          \o typical_activities \o <<" ">> \o bio)
        tech_org_keywords == << <<"h","a","c","k">>, <<"a","c","m">>, <<"p","r","o","g","r","a","m","m","i","n","g">>, <<"c","o","d","i","n","g">>,
                                <<"d","a","t","a"," ","s","c","i","e","n","c","e">>, <<"c","o","m","p","u","t","i","n","g">>, <<"s","o","f","t","w","a","r","e">>,
                                <<"d","e","v","e","l","o","p","e","r">> >>
        tech_query_terms == << <<"c","o","m","p","u","t","e","r">>, <<"t","e","c","h","n","o","l","o","g","y">>, <<"t","e","c","h">>,
                               <<"p","r","o","g","r","a","m","m","i","n","g">>, <<"c","o","d","i","n","g">>, <<"e","n","g","i","n","e","e","r","i","n","g">>,
                               <<"s","o","f","t","w","a","r","e">>, <<"d","a","t","a">> >>
        comp_keywords == << <<"c","o","m","p","e","t","i","t","i","o","n","s">>, <<"c","o","m","p","e","t","i","t","i","o","n">>, <<"h","a","c","k">>,
                            <<"h","a","c","k","a","t","h","o","n">> >>
    IN
    << IF career_matches >= 2 THEN 8 ELSE IF career_matches >= 1 THEN 4 ELSE 0,
       IF activity_matches >= 3 THEN 10 ELSE IF activity_matches >= 2 THEN 5 ELSE 0,
       IF matches_count >= 5 THEN 8
       ELSE IF matches_count >= 3 THEN 5
       ELSE IF matches_count >= 2 THEN 2 ELSE 0,
       IF \E i \in 1..(Len(keywords) - 1) :
             Contains(org_text,
                      Lower(keywords[i]) \o <<" ">> \o Lower(keywords[i + 1]))
       THEN 12 ELSE 0,
       IF AnyIn(tech_org_keywords, name) /\ AnyIn(tech_query_terms, query_text)
       THEN 5 ELSE 0,
       IF /\ \/ Contains(Lower(typical_activities), <<"c","o","m","p","e","t","i","t","i","o","n","s">>)
             \/ Contains(Lower(name), <<"h","a","c","k">>)
          /\ AnyIn(comp_keywords, query_text)
       THEN 3 ELSE 0 >>

\* score += x, for each x of a sequence in turn
RECURSIVE AddAll(_, _)
AddAll(score, added) ==
    IF added = <<>> THEN score
    ELSE AddAll(DoubleAdd(score, Head(added)), Tail(added))

\* a penalty that looks at career_matches alone
PenaltyAndInt_CareerOnly(score, career_matches, activity_matches) ==
    IF career_matches = 0
    THEN DoubleToInt(DoubleMul(score, Double_0_7))
    ELSE DoubleToInt(score)

\* lines 447-451: the penalty of 0.7 when nothing matched career or activity,
\* and the cast to int, which truncates the (non-negative) float
PenaltyAndInt(score, career_matches, activity_matches) ==
    IF career_matches = 0 /\ activity_matches = 0
    THEN DoubleToInt(DoubleMul(score, Double_0_7))
    ELSE DoubleToInt(score)

\* lines 235-445: the local variables of calculate_relevance_score when it
\* reaches the penalty of line 447: the score accumulated so far and the
\* counters
ScoreLocals(org_row, keywords, user) ==
    LET name == Lower(org_row.name)
        typical_majors == Lower(org_row.typical_majors)
        typical_activities == Lower(org_row.typical_activities)
        club_culture_style == Lower(org_row.club_culture_style)
        bio == Lower(org_row.bio)
        fromCareer == CareerFieldsScore(ScorerCareerFields(user), typical_majors)
        perKeyword == [i \in 1..Len(keywords) |->
                          KeywordScore(keywords[i], name, typical_majors,
                                       typical_activities, club_culture_style, bio)]
        career_matches == fromCareer.career_matches
                          + SumSeq([i \in 1..Len(keywords) |-> perKeyword[i].career])
        activity_matches == SumSeq([i \in 1..Len(keywords) |-> perKeyword[i].activity])
        matches_count == SumSeq([i \in 1..Len(keywords) |-> perKeyword[i].matched])
        bonuses == Bonuses(keywords, name, typical_majors, typical_activities,
                           bio, career_matches, activity_matches, matches_count)
    IN [score |-> AddAll(DoubleZero,
                         <<major_match_bonus(ScorerMajor(user), typical_majors)>>
                         \o fromCareer.added
                         \o Flatten([i \in 1..Len(keywords) |-> perKeyword[i].added])
                         \o [i \in 1..Len(bonuses) |-> FromInt(bonuses[i])]),
        career_matches |-> career_matches,
        activity_matches |-> activity_matches,
        matches_count |-> matches_count]

\* a scorer that takes three points off every score
calculate_relevance_score_Minus(org_row, keywords, user) ==
    LET at_penalty == ScoreLocals(org_row, keywords, user) IN
    PenaltyAndInt(at_penalty.score, at_penalty.career_matches,
                  at_penalty.activity_matches) - 3

\* lines 233-451: the relevance score of one organization
calculate_relevance_score(org_row, keywords, user) ==
    LET at_penalty == ScoreLocals(org_row, keywords, user) IN
    PenaltyAndInt(at_penalty.score, at_penalty.career_matches,
                  at_penalty.activity_matches)

----------------------------------------------------------------------------
(* The invocations that are checked *)

MaxOrgs == 3
MaxTopN == 2

\* an organization row after load_data: every column a string, a missing
\* value the empty string
EmptyOrg ==
    [name |-> <<>>,
     bio |-> <<>>,
     typical_majors |-> <<>>,
     typical_activities |-> <<>>,
     club_culture_style |-> <<>>,
     eligible_gender |-> <<>>,
     eligible_races |-> <<>>,
     typical_classifications |-> <<>>,
     all_eligible_classifications |-> <<>>,
     eligible_sexuality |-> <<>>]

OrgRobotics ==
    [EmptyOrg EXCEPT !.name = <<"R","o","b","o","t","i","c","s"," ","C","l","u","b">>,
                    !.typical_majors = <<"E","n","g","i","n","e","e","r","i","n","g">>,
                    !.typical_activities = <<"C","o","m","p","e","t","i","t","i","o","n","s",","," ","W","o","r","k","s","h","o","p","s">>]

OrgRocketry ==
    [EmptyOrg EXCEPT !.name = <<"R","o","c","k","e","t","r","y"," ","C","l","u","b">>,
                    !.typical_majors = <<"E","n","g","i","n","e","e","r","i","n","g">>,
                    !.typical_activities = <<"C","o","m","p","e","t","i","t","i","o","n","s",","," ","W","o","r","k","s","h","o","p","s">>]

OrgWomenBusiness ==
    [EmptyOrg EXCEPT !.name = <<"W","o","m","e","n","'","s"," ","B","u","s","i","n","e","s","s"," ","N","e","t","w","o","r","k">>,
                    !.eligible_gender = <<"f","e","m","a","l","e">>]

OrgBio ==
    [EmptyOrg EXCEPT !.name = <<"B","i","o"," ","C","l","u","b">>,
                    !.typical_majors = <<"B","i","o","l","o","g","y">>]

OrgWomenComputing ==
    [EmptyOrg EXCEPT !.name = <<"W","o","m","e","n"," ","i","n"," ","C","o","m","p","u","t","i","n","g">>,
                    !.bio = <<"A"," ","c","l","u","b"," ","f","o","r"," ","w","o","m","e","n"," ","i","n"," ","c","o","m","p","u","t","i","n","g"," ","a","n","d"," ","e","n","g","i","n","e","e","r","i","n","g">>]

OrgPool == { OrgRobotics, OrgRocketry, OrgWomenBusiness, OrgBio, OrgWomenComputing }

UserBlank ==
    Profile(TRUE,
            <<>>,
            <<>>,
            <<>>,
            <<>>,
            <<>>,
            [type |-> "list", value |-> <<  >>],
            <<>>)

UserMale ==
    Profile(TRUE,
            <<"M","a","l","e">>,
            <<>>,
            <<>>,
            <<>>,
            <<>>,
            [type |-> "list", value |-> <<  >>],
            <<>>)

UserFemaleEngineer ==
    Profile(TRUE,
            <<"f","e","m","a","l","e">>,
            <<>>,
            <<>>,
            <<>>,
            <<>>,
            [type |-> "list", value |-> << <<"E","n","g","i","n","e","e","r","i","n","g">> >>],
            <<"M","e","c","h","a","n","i","c","a","l"," ","E","n","g","i","n","e","e","r","i","n","g">>)

Users == { NoUser, UserBlank, UserMale, UserFemaleEngineer }

QueryEmpty == <<>>

QueryBlank == <<" ","\t"," ">>

QueryDelims == <<"|"," ",","," ","-"," ","/">>

QueryRejected == <<"n","a","n",","," ","a"," ","|"," ","n","o","n","e">>

QueryEngineering == <<"E","n","g","i","n","e","e","r","i","n","g"," ","|"," ","C","o","m","p","e","t","i","t","i","o","n","s">>

QueryClub == <<"c","l","u","b">>

QueryWomen == <<"W","o","m","e","n"," ","C","o","m","p","u","t","i","n","g">>

Queries ==
    { QueryEmpty,
      QueryBlank,
      QueryDelims,
      QueryRejected,
      QueryEngineering,
      QueryClub,
      QueryWomen }

\* the keyword lists of the queries
KeywordLists == { Tokenize(q) : q \in Queries }

\* the scorer and the filter on the rows, keyword lists and profiles of the
\* checked invocations, evaluated once
ScoreOf ==
    [o \in OrgPool, k \in KeywordLists, u \in Users |->
        calculate_relevance_score(o, k, u)]

EligibilityOf == [o \in OrgPool, u \in Users |-> check_eligibility(o, u)]

KeywordsOf == [q \in Queries |-> Tokenize(q)]

----------------------------------------------------------------------------
(* The ranking pipeline: search_clubs, lines 453-582, and                  *)
(* search_clubs_supabase, lines 629-758                                    *)
(* A DataFrame is the sequence of its rows; the index label of a row is    *)
(* its position in the loaded table (1 for pandas' label 0).               *)

Min(a, b) == IF a < b THEN a ELSE b

\* lines 10-18: the rows of the CSV file
load_data(rows) == rows

page_size == 1000

\* lines 596-611: the pages of the table from offset on, one request per page
RECURSIVE FetchPages(_, _)
FetchPages(rows, offset) ==
    LET data == SubSeq(rows, offset + 1, Min(offset + page_size, Len(rows))) IN
    IF data = <<>> THEN <<>>
    ELSE IF Len(data) < page_size THEN data
    ELSE data \o FetchPages(rows, offset + page_size)

\* a loader that stops before the first page
load_data_from_supabase_NoRows(rows) == <<>>

\* lines 584-623: the rows of the organizations table
load_data_from_supabase(rows) == FetchPages(rows, 0)

\* lines 506 and 683: the relevance_score column
ScoreColumn(df, keywords, user) ==
    [i \in 1..Len(df) |-> ScoreOf[df[i], keywords, user]]

\* a pipeline that does not apply the filter
EligibleRows_Unfiltered(df, user) == [i \in 1..Len(df) |-> i]

\* lines 509-511 and 686-688: the index labels of the rows the filter keeps,
\* in the order of the table
EligibleRows(df, user) ==
    IF user.given
    THEN SelectSeq([i \in 1..Len(df) |-> i],
                   LAMBDA i : EligibilityOf[df[i], user])
    ELSE [i \in 1..Len(df) |-> i]

\* the range of a sequence
Range(seq) == { seq[i] : i \in 1..Len(seq) }

\* a pipeline that does not sort
SortOutcomes_Unsorted(rows, score) == { rows }

\* lines 514 and 691: sort_values(by='relevance_score', ascending=False) with
\* the default kind='quicksort', which is not a stable sort: every arrangement
\* of the rows by descending score is a possible outcome
SortOutcomes(rows, score) ==
    { s \in [1..Len(rows) -> Range(rows)] :
        /\ \A i, j \in 1..Len(rows) : i # j => s[i] # s[j]
        /\ \A i \in 1..(Len(rows) - 1) : score[s[i]] >= score[s[i + 1]] }

\* a pipeline that keeps the rows of score zero
PositiveScores_NonNegative(df_sorted, score) ==
    SelectSeq(df_sorted, LAMBDA i : score[i] >= 0)

\* lines 517 and 694: the rows with a score above zero
PositiveScores(df_sorted, score) == SelectSeq(df_sorted, LAMBDA i : score[i] > 0)

\* a pipeline that takes top_n = 0 for a limit of zero rows
Truncate_ZeroIsLimit(rows, n) ==
    IF n >= 0 THEN SubSeq(rows, 1, Min(Len(rows), n)) ELSE rows

\* lines 521-527 and 698-702: the rows that are returned
Truncate(rows, n) == IF n > 0 THEN SubSeq(rows, 1, Min(Len(rows), n)) ELSE rows

\* lines 534-559 and 709-734: the score breakdown of one returned row
score_breakdown(row, keywords) ==
    LET hits(text, points) ==
            SumSeq([k \in 1..Len(keywords) |->
                       IF Contains(Lower(text), Strip(Lower(keywords[k])))
                       THEN points ELSE 0])
    IN [name_matches |-> hits(row.name, 10),
        majors_matches |-> hits(row.typical_majors, 10),
        activities_matches |-> hits(row.typical_activities, 5),
        culture_matches |-> hits(row.club_culture_style, 5),
        bio_matches |-> hits(row.bio, 1)]

\* lines 529-580 and 704-756: the dictionary of one returned row (index is the
\* row's index label; the other columns are passed through)
ResultRow(df, i, score, keywords) ==
    [index |-> i,
     name |-> df[i].name,
     relevance_score |-> score[i],
     score_breakdown |-> score_breakdown(df[i], keywords)]

\* lines 505-582 and 682-758: the state at return, for one outcome of the sort
Ranked(df, keywords, df_sorted, score) ==
    LET kept == PositiveScores(df_sorted, score)
        df_to_process == Truncate(kept, top_n)
    IN
    /\ query_keywords' = keywords
    /\ df_with_scores' = kept
    /\ results' = [k \in 1..Len(df_to_process) |->
                       ResultRow(df, df_to_process[k], score, keywords)]
    /\ calls' = [score |-> calls.score + Len(df),
                 filter |-> calls.filter + IF user_data.given THEN Len(df) ELSE 0]

\* a pipeline without the early return on an empty keyword list
NoKeywords_Skipped(keywords) == FALSE

\* lines 502 and 679: `if not query_keywords`
NoKeywords(keywords) == keywords = <<>>

\* lines 458-459, 502-503, 640-641, 679-680: the early return of an empty list
ReturnEmpty(keywords) ==
    /\ query_keywords' = keywords
    /\ df_with_scores' = <<>>
    /\ results' = <<>>
    /\ UNCHANGED calls

\* lines 453-582: search_clubs(query, user_data, csv_path, top_n)
SearchClubs ==
    /\ pc = "start"
    /\ pc' = "done"
    /\ \E df \in { load_data(organizations) }, keywords \in { KeywordsOf[query] } :
          IF Len(df) = 0 THEN ReturnEmpty(<<>>)
          ELSE IF NoKeywords(keywords) THEN ReturnEmpty(keywords)
          ELSE \E score \in { ScoreColumn(df, keywords, user_data) } :
               \E df_sorted \in SortOutcomes(EligibleRows(df, user_data), score) :
                   Ranked(df, keywords, df_sorted, score)
    /\ UNCHANGED <<query, user_data, organizations, top_n, returned, locals>>

\* lines 629-758: search_clubs_supabase(query, user_data, supabase_client, top_n)
SearchClubsSupabase ==
    /\ pc = "start"
    /\ pc' = "done_supabase"
    /\ \E df \in { load_data_from_supabase(organizations) },
          keywords \in { KeywordsOf[query] } :
          IF Len(df) = 0 THEN ReturnEmpty(<<>>)
          ELSE IF NoKeywords(keywords) THEN ReturnEmpty(keywords)
          ELSE \E score \in { ScoreColumn(df, keywords, user_data) } :
               \E df_sorted \in SortOutcomes(EligibleRows(df, user_data), score) :
                   Ranked(df, keywords, df_sorted, score)
    /\ UNCHANGED <<query, user_data, organizations, top_n, returned, locals>>

----------------------------------------------------------------------------
(* The initial states *)

\* nothing was called directly
NoValue == "none"

\* the tables: up to MaxOrgs different organizations of the pool, in any order
Tables ==
    { t \in UNION { [1..n -> OrgPool] : n \in 0..MaxOrgs } :
        \A i, j \in 1..Len(t) : i # j => t[i] # t[j] }

Init ==
    /\ query \in Queries
    /\ user_data \in Users
    /\ organizations \in Tables
    /\ top_n \in -1..MaxTopN
    /\ pc = "start"
    /\ query_keywords = <<>>
    /\ df_with_scores = <<>>
    /\ results = <<>>
    /\ calls = [score |-> 0, filter |-> 0]
    /\ returned = NoValue
    /\ locals = NoValue

Next == SearchClubs \/ SearchClubsSupabase

Spec == Init /\ [][Next]_vars

----------------------------------------------------------------------------
(* The tokenizer on its own: every query built of a few pieces *)

MaxPieces == 3

\* words and delimiters a query is built of
TokPieces ==
    { <<"n","a","n">>, <<"N","a","N">>, <<"n","o","n","e">>, <<"N","o","n","e">>, <<"a","b">>, <<"A","b">>, <<"a">>,
      <<"|">>, <<",">>, <<" ">>, <<"/">>, <<"-">>, <<"\t">> }

ExampleQuery == <<"E","n","g","i","n","e","e","r","i","n","g",","," ","T","e","c","h","n","o","l","o","g","y","/","C","o","m","p","u","t","e","r"," ","S","c","i","e","n","c","e"," ","|"," ","M","a","l","e">>

TokQueries ==
    { Flatten(ps) : ps \in UNION { [1..n -> TokPieces] : n \in 0..MaxPieces } }
        \cup { ExampleQuery }

InitTok ==
    /\ query \in TokQueries
    /\ user_data = NoUser
    /\ organizations = <<>>
    /\ top_n = 0
    /\ pc = "start"
    /\ query_keywords = <<>>
    /\ df_with_scores = <<>>
    /\ results = <<>>
    /\ calls = [score |-> 0, filter |-> 0]
    /\ returned = NoValue
    /\ locals = NoValue

\* search_clubs, lines 461-500, up to the test of line 502
TokenizeQuery ==
    /\ pc = "start"
    /\ query_keywords' = Tokenize(query)
    /\ pc' = "tokenized"
    /\ UNCHANGED <<query, user_data, organizations, top_n, df_with_scores, results, calls,
                   returned, locals>>

NextTok == TokenizeQuery

SpecTok == InitTok /\ [][NextTok]_vars

----------------------------------------------------------------------------
(* The filter on its own: check_eligibility of weighted_search.py and of    *)
(* vector_search.py, called on one organization and one profile.  The       *)
(* organizations and the profiles each put values on one rule's fields, or  *)
(* on several.                                                              *)

GenderOrgs ==
    { [EmptyOrg EXCEPT !.name = <<"C","h","e","s","s"," ","C","l","u","b">>],
      [EmptyOrg EXCEPT !.name = <<"W","o","m","e","n"," ","i","n"," ","C","o","m","p","u","t","i","n","g">>],
      [EmptyOrg EXCEPT !.name = <<"F","e","m","a","l","e"," ","F","o","u","n","d","e","r","s">>],
      [EmptyOrg EXCEPT !.name = <<"S","o","c","i","e","t","y"," ","o","f"," ","W","o","m","a","n"," ","E","n","g","i","n","e","e","r","s">>],
      [EmptyOrg EXCEPT !.name = <<"M","e","n","'","s"," ","R","u","g","b","y">>],
      [EmptyOrg EXCEPT !.name = <<"C","h","e","s","s"," ","C","l","u","b">>, !.eligible_gender = <<"A","l","l">>],
      [EmptyOrg EXCEPT !.name = <<"C","h","e","s","s"," ","C","l","u","b">>, !.eligible_gender = <<"F","e","m","a","l","e">>],
      [EmptyOrg EXCEPT !.name = <<"C","h","e","s","s"," ","C","l","u","b">>, !.eligible_gender = <<"m","a","l","e">>],
      [EmptyOrg EXCEPT !.name = <<"C","h","e","s","s"," ","C","l","u","b">>, !.eligible_gender = <<"N","o","n","-","b","i","n","a","r","y">>],
      [EmptyOrg EXCEPT !.name = <<"C","h","e","s","s"," ","C","l","u","b">>, !.eligible_gender = <<"n","a","n">>],
      [EmptyOrg EXCEPT !.name = <<"W","o","m","e","n"," ","i","n"," ","C","o","m","p","u","t","i","n","g">>, !.eligible_gender = <<"a","l","l">>] }

RaceOrgs ==
    { [EmptyOrg EXCEPT !.name = <<"C","h","e","s","s"," ","C","l","u","b">>, !.eligible_races = <<"a","l","l">>],
      [EmptyOrg EXCEPT !.name = <<"C","h","e","s","s"," ","C","l","u","b">>, !.eligible_races = <<"A","l","l"," ","r","a","c","e","s">>],
      [EmptyOrg EXCEPT !.name = <<"C","h","e","s","s"," ","C","l","u","b">>, !.eligible_races = <<"A","s","i","a","n">>],
      [EmptyOrg EXCEPT !.name = <<"C","h","e","s","s"," ","C","l","u","b">>, !.eligible_races = <<"S","o","u","t","h"," ","A","s","i","a","n">>],
      [EmptyOrg EXCEPT !.name = <<"C","h","e","s","s"," ","C","l","u","b">>, !.eligible_races = <<"H","i","s","p","a","n","i","c",","," ","B","l","a","c","k">>],
      [EmptyOrg EXCEPT !.name = <<"C","h","e","s","s"," ","C","l","u","b">>, !.eligible_races = <<"W","h","i","t","e">>],
      [EmptyOrg EXCEPT !.name = <<"C","h","e","s","s"," ","C","l","u","b">>, !.eligible_races = <<"P","a","c","i","f","i","c"," ","I","s","l","a","n","d","e","r">>],
      [EmptyOrg EXCEPT !.name = <<"C","h","e","s","s"," ","C","l","u","b">>, !.eligible_races = <<"A","s","i","a","n",","," ","M","a","r","s","h","a","l","l","e","s","e">>],
      [EmptyOrg EXCEPT !.name = <<"C","h","e","s","s"," ","C","l","u","b">>, !.eligible_races = <<"n","o","n","e">>] }

ClassificationOrgs ==
    { [EmptyOrg EXCEPT !.name = <<"C","h","e","s","s"," ","C","l","u","b">>, !.typical_classifications = <<"J","u","n","i","o","r",","," ","S","e","n","i","o","r">>],
      [EmptyOrg EXCEPT !.name = <<"C","h","e","s","s"," ","C","l","u","b">>, !.all_eligible_classifications = <<"J","u","n","i","o","r",","," ","S","e","n","i","o","r">>],
      [EmptyOrg EXCEPT !.name = <<"C","h","e","s","s"," ","C","l","u","b">>, !.typical_classifications = <<"F","r","e","s","h","m","a","n">>, !.all_eligible_classifications = <<"J","u","n","i","o","r",","," ","S","e","n","i","o","r">>],
      [EmptyOrg EXCEPT !.name = <<"C","h","e","s","s"," ","C","l","u","b">>, !.typical_classifications = <<"J","u","n","i","o","r">>, !.all_eligible_classifications = <<"n","o","n","e">>],
      [EmptyOrg EXCEPT !.name = <<"G","r","a","d","u","a","t","e"," ","S","t","u","d","e","n","t"," ","C","o","u","n","c","i","l">>],
      [EmptyOrg EXCEPT !.name = <<"G","r","a","d","u","a","t","e"," ","S","t","u","d","e","n","t"," ","C","o","u","n","c","i","l">>, !.typical_classifications = <<"S","e","n","i","o","r">>],
      [EmptyOrg EXCEPT !.name = <<"F","r","e","s","h","m","a","n"," ","O","r","i","e","n","t","a","t","i","o","n">>],
      [EmptyOrg EXCEPT !.name = <<"F","r","e","s","h","m","e","n"," ","L","e","a","d","e","r","s">>],
      [EmptyOrg EXCEPT !.name = <<"G","r","a","d","u","a","t","e"," ","S","t","u","d","e","n","t"," ","M","e","n","t","o","r","s"," ","o","f"," ","F","r","e","s","h","m","a","n"," ","Y","e","a","r">>] }

SexualityOrgs ==
    { [EmptyOrg EXCEPT !.name = <<"C","h","e","s","s"," ","C","l","u","b">>, !.eligible_sexuality = <<"A","l","l">>],
      [EmptyOrg EXCEPT !.name = <<"C","h","e","s","s"," ","C","l","u","b">>, !.eligible_sexuality = <<"G","a","y",","," ","L","e","s","b","i","a","n">>],
      [EmptyOrg EXCEPT !.name = <<"C","h","e","s","s"," ","C","l","u","b">>, !.eligible_sexuality = <<"s","t","r","a","i","g","h","t">>],
      [EmptyOrg EXCEPT !.name = <<"C","h","e","s","s"," ","C","l","u","b">>, !.eligible_sexuality = <<"Q","u","e","e","r">>],
      [EmptyOrg EXCEPT !.name = <<"C","h","e","s","s"," ","C","l","u","b">>, !.eligible_sexuality = <<"n","a","n">>] }

ReligionOrgs ==
    { [EmptyOrg EXCEPT !.name = <<"C","h","r","i","s","t","i","a","n"," ","F","e","l","l","o","w","s","h","i","p">>],
      [EmptyOrg EXCEPT !.name = <<"M","u","s","l","i","m"," ","S","t","u","d","e","n","t","s">>],
      [EmptyOrg EXCEPT !.name = <<"I","n","t","e","r","f","a","i","t","h"," ","C","o","u","n","c","i","l">>, !.bio = <<"W","e"," ","v","i","s","i","t"," ","a"," ","c","h","u","r","c","h"," ","a","n","d"," ","a"," ","m","o","s","q","u","e">>],
      [EmptyOrg EXCEPT !.name = <<"Y","o","g","a"," ","C","l","u","b">>],
      [EmptyOrg EXCEPT !.name = <<"C","h","e","s","s"," ","C","l","u","b">>, !.bio = <<"W","e","e","k","l","y"," ","g","a","m","e","s">>] }

CareerOrgs ==
    { [EmptyOrg EXCEPT !.name = <<"C","h","e","s","s"," ","C","l","u","b">>, !.typical_majors = <<"E","n","g","i","n","e","e","r","i","n","g">>],
      [EmptyOrg EXCEPT !.name = <<"C","h","e","s","s"," ","C","l","u","b">>, !.typical_majors = <<"C","o","m","p","u","t","e","r"," ","S","c","i","e","n","c","e">>],
      [EmptyOrg EXCEPT !.name = <<"C","h","e","s","s"," ","C","l","u","b">>, !.typical_majors = <<"B","i","o","l","o","g","y">>],
      [EmptyOrg EXCEPT !.name = <<"C","h","e","s","s"," ","C","l","u","b">>, !.typical_majors = <<"n","o","n","e">>],
      [EmptyOrg EXCEPT !.name = <<"C","h","e","s","s"," ","C","l","u","b">>, !.typical_majors = <<"L","e","g","a","l"," ","S","t","u","d","i","e","s",","," ","D","a","n","c","e">>],
      [EmptyOrg EXCEPT !.name = <<"C","h","e","s","s"," ","C","l","u","b">>, !.typical_majors = <<"R","e","c","r","e","a","t","i","o","n">>] }

MixedOrgs ==
    { [EmptyOrg EXCEPT !.name = <<"W","o","m","e","n"," ","i","n"," ","C","o","m","p","u","t","i","n","g">>, !.bio = <<"M","e","e","t","s"," ","a","t"," ","t","h","e"," ","c","h","u","r","c","h">>, !.eligible_gender = <<"F","e","m","a","l","e">>, !.eligible_races = <<"A","s","i","a","n">>, !.typical_classifications = <<"F","r","e","s","h","m","a","n">>, !.all_eligible_classifications = <<"F","r","e","s","h","m","a","n",","," ","S","o","p","h","o","m","o","r","e">>, !.eligible_sexuality = <<"L","e","s","b","i","a","n">>, !.typical_majors = <<"C","o","m","p","u","t","e","r"," ","S","c","i","e","n","c","e">>] }

EligOrgs ==
    GenderOrgs \cup RaceOrgs
        \cup ClassificationOrgs \cup SexualityOrgs \cup ReligionOrgs
        \cup CareerOrgs \cup MixedOrgs

NoCareerFields == [type |-> "list", value |-> <<>>]

\* a profile without any value
UserEmpty == Profile(TRUE, <<>>, <<>>, <<>>, <<>>, <<>>, NoCareerFields, <<>>)

GenderUsers ==
    { Profile(TRUE, v, <<>>, <<>>, <<>>, <<>>, NoCareerFields, <<>>) :
        v \in { <<"M","a","l","e">>, <<"f","e","m","a","l","e">>, <<" ","W","o","m","a","n">>, <<"m","a","n">>, <<"N","o","n","-","b","i","n","a","r","y">> } }

RaceUsers ==
    { Profile(TRUE, <<>>, v, <<>>, <<>>, <<>>, NoCareerFields, <<>>) :
        v \in { <<"A","s","i","a","n">>, <<"S","o","u","t","h"," ","A","s","i","a","n">>, <<"W","h","i","t","e">>, <<"b","l","a","c","k">>, <<"H","i","s","p","a","n","i","c">>, <<"P","a","c","i","f","i","c"," ","I","s","l","a","n","d","e","r">> } }

ClassificationUsers ==
    { Profile(TRUE, <<>>, <<>>, v, <<>>, <<>>, NoCareerFields, <<>>) :
        v \in { <<"F","r","e","s","h","m","a","n">>, <<"j","u","n","i","o","r">>, <<"G","r","a","d","u","a","t","e">>, <<"S","e","n","i","o","r"," ">> } }

SexualityUsers ==
    { Profile(TRUE, <<>>, <<>>, <<>>, v, <<>>, NoCareerFields, <<>>) :
        v \in { <<"S","t","r","a","i","g","h","t">>, <<"g","a","y">>, <<"q","u","e","e","r">>, <<"b","i">> } }

ReligionUsers ==
    { Profile(TRUE, <<>>, <<>>, <<>>, <<>>, v, NoCareerFields, <<>>) :
        v \in { <<"C","h","r","i","s","t","i","a","n">>, <<"m","u","s","l","i","m">>, <<"P","a","g","a","n">>, <<"h","i","n","d","u">> } }

MaxCareerFields == 2

\* the entries careerFields is built of
CareerPool ==
    { <<"E","n","g","i","n","e","e","r","i","n","g">>, <<"l","a","w">>, <<"T","e","c","h","n","o","l","o","g","y","/","C","o","m","p","u","t","e","r"," ","S","c","i","e","n","c","e">>, <<"D","a","n","c","e">>, <<" ">> }

CareerLists == UNION { [1..n -> CareerPool] : n \in 0..MaxCareerFields }

\* ', '.join(fields): the comma-separated string of the same entries
RECURSIVE JoinComma(_)
JoinComma(fields) ==
    IF fields = <<>> THEN <<>>
    ELSE IF Len(fields) = 1 THEN Head(fields)
    ELSE Head(fields) \o <<",", " ">> \o JoinComma(Tail(fields))

\* careerFields as the list `fields` and as the string of the same entries
AsList(fields) == [type |-> "list", value |-> fields]
AsString(fields) == [type |-> "str", value |-> JoinComma(fields)]

CareerUsers ==
    { Profile(TRUE, <<>>, <<>>, <<>>, <<>>, <<>>, cf, <<>>) :
        cf \in { AsList(l) : l \in CareerLists } \cup { AsString(l) : l \in CareerLists } }

MixedUsers ==
    { Profile(TRUE, <<"f","e","m","a","l","e">>, <<"A","s","i","a","n">>, <<"f","r","e","s","h","m","a","n">>, <<"l","e","s","b","i","a","n">>, <<"c","h","r","i","s","t","i","a","n">>, [type |-> "list", value |-> << <<"T","e","c","h","n","o","l","o","g","y","/","C","o","m","p","u","t","e","r"," ","S","c","i","e","n","c","e">> >>], <<>>),
      Profile(TRUE, <<"m","a","l","e">>, <<>>, <<"s","e","n","i","o","r">>, <<>>, <<>>, [type |-> "str", value |-> <<"E","n","g","i","n","e","e","r","i","n","g">>], <<>>),
      Profile(TRUE, <<>>, <<"w","h","i","t","e">>, <<>>, <<"g","a","y">>, <<"h","i","n","d","u">>, [type |-> "list", value |-> <<  >>], <<>>) }

EligUsers ==
    {UserEmpty} \cup GenderUsers \cup RaceUsers \cup ClassificationUsers
        \cup SexualityUsers \cup ReligionUsers \cup CareerUsers \cup MixedUsers

InitElig ==
    /\ query = <<>>
    /\ user_data \in EligUsers
    /\ organizations \in { <<o>> : o \in EligOrgs }
    /\ top_n = 0
    /\ pc = "start"
    /\ query_keywords = <<>>
    /\ df_with_scores = <<>>
    /\ results = <<>>
    /\ calls = [score |-> 0, filter |-> 0]
    /\ returned = NoValue
    /\ locals = NoValue

\* weighted_search.py lines 20-231: check_eligibility(org_row, user_data)
CheckEligibility ==
    /\ pc = "start"
    /\ returned' = check_eligibility(organizations[1], user_data)
    /\ pc' = "checked"
    /\ UNCHANGED <<query, user_data, organizations, top_n, query_keywords,
                   df_with_scores, results, calls, locals>>

\* vector_search.py lines 31-148: check_eligibility(org_row, user_data)
VectorCheckEligibility ==
    /\ pc = "start"
    /\ returned' = vector_check_eligibility(organizations[1], user_data)
    /\ pc' = "checked_vector"
    /\ UNCHANGED <<query, user_data, organizations, top_n, query_keywords,
                   df_with_scores, results, calls, locals>>

NextElig == CheckEligibility \/ VectorCheckEligibility

SpecElig == InitElig /\ [][NextElig]_vars

----------------------------------------------------------------------------
(* Claims about the tokenizer, checked under SpecTok *)

\* the characters that end a word: '|' and the class [,\s/\-]
AllDelims == {"|", ",", "/", "-", " ", "\t", "\n"}

\* the positions of q where a maximal run of non-delimiters begins
WordStarts(q) ==
    { i \in 1..Len(q) : q[i] \notin AllDelims /\ (i = 1 \/ q[i - 1] \in AllDelims) }

\* the maximal run of non-delimiters that begins at position i
WordAt(q, i) ==
    LET last == CHOOSE j \in i..Len(q) :
                    /\ \A k \in i..j : q[k] \notin AllDelims
                    /\ (j = Len(q) \/ q[j + 1] \in AllDelims)
    IN SubSeq(q, i, last)

\* the starts of the words of q that are kept, given the candidates: the first
\* occurrence, ignoring case, of every candidate word
FirstSeen(q, cands) ==
    { i \in cands :
        ~ \E h \in cands : h < i /\ Lower(WordAt(q, h)) = Lower(WordAt(q, i)) }

\* the words of q that begin at the positions of S, in the order of the positions
WordsInOrder(q, S) ==
    [k \in 1..Cardinality(S) |->
        WordAt(q, CHOOSE i \in S : Cardinality({ h \in S : h <= i }) = k)]

\* the words of length > 1
LongWords(q) == { i \in WordStarts(q) : Len(WordAt(q, i)) > 1 }

\* the words of length > 1 other than the literal words nan and none
AcceptedWords(q) ==
    { i \in LongWords(q) : WordAt(q, i) \notin { <<"n","a","n">>, <<"n","o","n","e">> } }

\* C7 as stated: the keyword list is the words of length > 1 of the query, split
\* on '|' and on runs of ',', whitespace, '/', '-', without the later words that
\* equal an earlier one ignoring case, in first-seen order.
C7_AsStated ==
    pc = "tokenized" =>
        query_keywords = WordsInOrder(query, FirstSeen(query, LongWords(query)))

\* C7, amended: the keyword list is the words of length > 1 of the query other
\* than the literal lower-case words "nan" and "none", split on '|' and on runs
\* of ',', whitespace, '/', '-', without the later words that equal an earlier
\* kept one ignoring case, in first-seen order; the example query yields
\* Engineering, Technology, Computer, Science, Male.
C7_TokenizerOutput ==
    pc = "tokenized" =>
        /\ query_keywords =
               WordsInOrder(query, FirstSeen(query, AcceptedWords(query)))
        /\ query = ExampleQuery =>
               query_keywords = << <<"E","n","g","i","n","e","e","r","i","n","g">>, <<"T","e","c","h","n","o","l","o","g","y">>, <<"C","o","m","p","u","t","e","r">>,
                                   <<"S","c","i","e","n","c","e">>, <<"M","a","l","e">> >>

\* C7's case: a query with a word "nan" or "none", which is left out, and
\* another word, which is kept
C7_Witness ==
    /\ pc = "tokenized"
    /\ AcceptedWords(query) # LongWords(query)
    /\ query_keywords # <<>>

\* C8 as stated: every keyword is lowercased and trimmed, of length > 1, and no
\* two keywords are equal.
C8_AsStated ==
    pc = "tokenized" =>
        /\ \A i \in 1..Len(query_keywords) :
              /\ query_keywords[i] = Lower(query_keywords[i])
              /\ query_keywords[i] = Strip(query_keywords[i])
              /\ Len(query_keywords[i]) > 1
        /\ \A i, j \in 1..Len(query_keywords) :
              i # j => query_keywords[i] # query_keywords[j]

\* C8, amended: every keyword is trimmed and of length > 1 and keeps the letter
\* case it has in the query (it is not lowercased), and no two keywords are
\* equal, not even ignoring case.
C8_KeywordForm ==
    pc = "tokenized" =>
        /\ \A i \in 1..Len(query_keywords) :
              /\ query_keywords[i] = Strip(query_keywords[i])
              /\ Len(query_keywords[i]) > 1
              /\ Contains(query, query_keywords[i])
        /\ \A i, j \in 1..Len(query_keywords) :
              i # j => Lower(query_keywords[i]) # Lower(query_keywords[j])

\* C8's case: a keyword list that holds a keyword with an upper-case letter,
\* from a query where that word comes again in lower case
C8_Witness ==
    /\ pc = "tokenized"
    /\ \E i \in 1..Len(query_keywords) :
          /\ query_keywords[i] # Lower(query_keywords[i])
          /\ Contains(query, Lower(query_keywords[i]))
    /\ Len(query_keywords) < Cardinality(LongWords(query))

\* C9: no keyword is "nan" or "none" in any letter case.
C9_NoNanNone ==
    pc = "tokenized" =>
        \A i \in 1..Len(query_keywords) :
            Lower(query_keywords[i]) \notin { <<"n","a","n">>, <<"n","o","n","e">> }

----------------------------------------------------------------------------
(* Claims about the ranking pipeline, checked under Spec *)

\* an invocation has returned
Done == pc \in {"done", "done_supabase"}

\* the score of row i of the table in the returned invocation
RowScore(i) == ScoreOf[organizations[i], query_keywords, user_data]

\* row i of the table passes the filter for the profile of the invocation
RowEligible(i) == EligibilityOf[organizations[i], user_data]

\* the rows that may be returned: every row that passes the filter when a
\* profile is given, and whose score is above zero; none when the query has no
\* keyword
Returnable ==
    IF KeywordsOf[query] = <<>> THEN {}
    ELSE { i \in 1..Len(organizations) :
             (user_data.given => RowEligible(i)) /\ RowScore(i) > 0 }

\* C1: with a non-empty profile, no organization that check_eligibility rejects
\* is among the results of search_clubs or search_clubs_supabase, whatever its
\* score.
C1_IneligibleNeverReturned ==
    (Done /\ user_data.given) =>
        \A k \in 1..Len(results) : RowEligible(results[k].index)

\* C1's case: a rejected organization scores above every returned one
C1_Witness ==
    /\ Done /\ user_data.given /\ results # <<>>
    /\ \E i \in 1..Len(organizations) :
          /\ ~ RowEligible(i)
          /\ RowScore(i) > results[1].relevance_score

\* C2: every result has relevance_score > 0, and that score is the computed
\* score of its organization.
C2_PositiveScores ==
    Done =>
        \A k \in 1..Len(results) :
            /\ results[k].relevance_score > 0
            /\ results[k].relevance_score = RowScore(results[k].index)

\* C2's case: an organization that passes the filter and scores zero is left
\* out of a non-empty result list
C2_Witness ==
    /\ Done /\ results # <<>>
    /\ \E i \in 1..Len(organizations) :
          /\ user_data.given => RowEligible(i)
          /\ RowScore(i) = 0
          /\ \A k \in 1..Len(results) : results[k].index # i

\* C3: the results are ordered by relevance_score, non-increasing.
C3_DescendingScores ==
    Done =>
        \A k \in 1..(Len(results) - 1) :
            results[k].relevance_score >= results[k + 1].relevance_score

\* C3's case: a row of higher score is returned before a row that precedes it
\* in the table
C3_Witness ==
    /\ Done /\ Len(results) >= 2
    /\ results[1].relevance_score > results[2].relevance_score
    /\ results[1].index > results[2].index

\* C4: two returned organizations of equal score keep the relative order they
\* have in the table.
C4_StableRanking ==
    Done =>
        \A k, l \in 1..Len(results) :
            (k < l /\ results[k].relevance_score = results[l].relevance_score)
                => results[k].index < results[l].index

\* C5: with N the number of rows that pass the filter and score above zero, the
\* full sequence df_with_scores holds exactly these N rows by descending score,
\* and the results are its first min(top_n, N) entries when top_n > 0, and all
\* N entries when top_n <= 0.
C5_Truncation ==
    Done =>
        /\ Len(df_with_scores) = Cardinality(Returnable)
        /\ { df_with_scores[k] : k \in 1..Len(df_with_scores) } = Returnable
        /\ \A k \in 1..(Len(df_with_scores) - 1) :
              RowScore(df_with_scores[k]) >= RowScore(df_with_scores[k + 1])
        /\ Len(results) = IF top_n > 0 THEN Min(top_n, Cardinality(Returnable))
                          ELSE Cardinality(Returnable)
        /\ \A k \in 1..Len(results) : results[k].index = df_with_scores[k]

\* C5's case: a limit below the number of returnable rows cuts the list
C5_Witness ==
    /\ Done /\ top_n > 0
    /\ Cardinality(Returnable) > top_n
    /\ Len(results) = top_n

\* C6: a query without an accepted word (empty, blank, or only delimiters,
\* one-letter words, "nan" and "none") has an empty keyword list, and the
\* search returns an empty list without calling the scorer or the filter.
C6_EmptyQuery ==
    (Done /\ AcceptedWords(query) = {}) =>
        /\ Tokenize(query) = <<>>
        /\ query_keywords = <<>>
        /\ results = <<>>
        /\ calls = [score |-> 0, filter |-> 0]

\* C6's case: a query of rejected words only, on a table with rows and with a
\* profile, so that a search with keywords would score and filter
C6_Witness ==
    /\ Done /\ pc = "done"
    /\ AcceptedWords(query) = {} /\ WordStarts(query) # {}
    /\ organizations # <<>> /\ user_data.given
    /\ results = <<>>

\* C11: for a user whose gender is "male", an organization whose name holds a
\* female-coded word and whose eligible_gender is empty is rejected by
\* check_eligibility (of weighted_search.py and of vector_search.py) and is
\* not among the results of the search, whatever its score.
C11_FemaleNameRejectsMale ==
    (Done /\ user_data.given /\ Lower(Strip(user_data.gender)) = <<"m","a","l","e">>) =>
        \A i \in 1..Len(organizations) :
            ( /\ AnyIn(FemaleWords, Lower(organizations[i].name))
              /\ Strip(organizations[i].eligible_gender) = <<>> ) =>
                /\ ~ RowEligible(i)
                /\ ~ vector_check_eligibility(organizations[i], user_data)
                /\ \A k \in 1..Len(results) : results[k].index # i

\* C11's case: an organization with a female-coded name scores above zero
\* for a male user, and other organizations are returned
C11_Witness ==
    /\ Done /\ user_data.given /\ Lower(Strip(user_data.gender)) = <<"m","a","l","e">>
    /\ results # <<>>
    /\ \E i \in 1..Len(organizations) :
          /\ AnyIn(FemaleWords, Lower(organizations[i].name))
          /\ Strip(organizations[i].eligible_gender) = <<>>
          /\ RowScore(i) > 0

----------------------------------------------------------------------------
\* Claims about the eligibility filter (SpecElig)

\* the call of check_eligibility has returned
Checked == pc \in {"checked", "checked_vector"}

\* the arguments of the call, as the filter normalises them
Org == organizations[1]
OrgName == Lower(Org.name)
UserGender == Lower(Strip(user_data.gender))
UserRace == Lower(Strip(user_data.race))
UserClassification == Lower(Strip(user_data.classification))
UserSexuality == Lower(Strip(user_data.sexuality))
UserReligion == Lower(Strip(user_data.religion))
OrgField(f) == Lower(Strip(Org[f]))

\* the name holds a word with a male-coded word and no female-coded word in it
SeparateMaleWord(name) ==
    \E w \in Range(WhitespaceSplit(name)) :
        AnyIn(MaleWords, w) /\ ~ AnyIn(FemaleWords, w)

\* the organization restricts nothing but, perhaps, gender
NoOtherRestriction ==
    /\ \A f \in {"eligible_races", "typical_classifications",
                 "all_eligible_classifications", "eligible_sexuality",
                 "typical_majors", "bio"} : OrgField(f) = <<>>
    /\ ~ AnyIn(<< <<"g","r","a","d","u","a","t","e"," ","s","t","u","d","e","n","t">>, <<"f","r","e","s","h","m","a","n">>, <<"f","r","e","s","h","m","e","n">> >>, OrgName)
    /\ \A i \in 1..Len(religious_keywords) :
           ~ AnyIn(religious_keywords[i].keywords, OrgName)

\* C12: an organization whose name holds "female", "women" or "woman" and no
\* separate male-coded word, with empty eligible_gender and no other
\* restriction, is admitted for a user whose gender is "female" or "woman".
C12_FemaleNameAdmitsFemale ==
    ( /\ Checked
      /\ UserGender \in FemaleGenders
      /\ AnyIn(FemaleWords, OrgName) /\ ~ SeparateMaleWord(OrgName)
      /\ OrgField("eligible_gender") = <<>>
      /\ NoOtherRestriction ) => returned = TRUE


\* the match conditions of the race rule
RaceMatches(user_race, field) ==
    \/ Contains(user_race, <<"a","s","i","a","n">>) /\ Contains(field, <<"a","s","i","a","n">>)
    \/ /\ Contains(user_race, <<"s","o","u","t","h"," ","a","s","i","a","n">>)
       /\ Contains(field, <<"s","o","u","t","h"," ","a","s","i","a","n">>) \/ Contains(field, <<"a","s","i","a","n">>)
    \/ \E token \in { <<"h","i","s","p","a","n","i","c">>, <<"b","l","a","c","k">>, <<"w","h","i","t","e">> } :
           Contains(user_race, token) /\ Contains(field, token)
    \/ Contains(field, user_race)

\* C13: when the user's race is non-empty and eligible_races is present and is
\* not the value "all", check_eligibility admits only if one of the match
\* conditions of the race rule holds, and rejects in every other case.
C13_RaceRule ==
    ( /\ pc = "checked"
      /\ UserRace # <<>>
      /\ Present(OrgField("eligible_races"))
      /\ OrgField("eligible_races") # <<"a","l","l">> ) =>
        (returned = TRUE => RaceMatches(UserRace, OrgField("eligible_races")))


\* the profile states a classification and nothing else
OnlyClassification ==
    /\ UserClassification # <<>>
    /\ user_data = [UserEmpty EXCEPT !.classification = user_data.classification]

\* the name heuristic of the classification rule
NameHeuristicRejects(user_classification, org_name) ==
    \/ /\ Contains(org_name, <<"g","r","a","d","u","a","t","e"," ","s","t","u","d","e","n","t">>)
       /\ user_classification # <<"g","r","a","d","u","a","t","e">>
    \/ /\ Contains(org_name, <<"f","r","e","s","h","m","a","n">>) \/ Contains(org_name, <<"f","r","e","s","h","m","e","n">>)
       /\ user_classification # <<"f","r","e","s","h","m","a","n">>

\* C14: when the user's classification is non-empty and is contained in
\* neither typical_classifications nor all_eligible_classifications,
\* check_eligibility (of weighted_search.py and of vector_search.py) rejects
\* if all_eligible_classifications is present; otherwise it rejects only
\* through the name heuristic and admits by default: a typical_classifications
\* that does not match never rejects by itself.
C14_ClassificationRule ==
    ( /\ Checked
      /\ OnlyClassification
      /\ ~ Contains(OrgField("typical_classifications"), UserClassification)
      /\ ~ Contains(OrgField("all_eligible_classifications"), UserClassification) ) =>
        IF Present(OrgField("all_eligible_classifications"))
        THEN returned = FALSE
        ELSE returned = FALSE => NameHeuristicRejects(UserClassification, OrgName)

\* the same statement of the weighted search alone
C14_WeightedOnly == pc = "checked_vector" \/ C14_ClassificationRule


\* the text the religion rule searches
OrgText == Lower(Org.name \o <<" ">> \o Org.bio)

\* C15: when the user's religion is non-empty, an organization whose name and
\* bio match the keywords of a religion other than the user's is rejected by
\* check_eligibility, also when it matches the keywords of the user's own
\* religion.
C15_OtherReligionRejected ==
    ( /\ pc = "checked"
      /\ UserReligion # <<>>
      /\ \E i \in 1..Len(religious_keywords) :
             /\ religious_keywords[i].religion # UserReligion
             /\ AnyIn(religious_keywords[i].keywords, OrgText) ) =>
        returned = FALSE


\* the career fields the user supplied
UserCareerFields == CareerFieldsOf(user_data.careerFields)

\* a career field is a substring of typical_majors
DirectCareerMatch(fields, typical_majors) ==
    \E c \in 1..Len(fields) : Contains(typical_majors, fields[c])

\* a career field is a key of the career table, and a term of its entry is a
\* substring of typical_majors
TableCareerMatch(fields, typical_majors) ==
    \E c \in 1..Len(fields) : \E k \in 1..Len(career_field_keywords) :
        /\ career_field_keywords[k].field = fields[c]
        /\ \E t \in 1..Len(career_field_keywords[k].keywords) :
               Contains(typical_majors, career_field_keywords[k].keywords[t])

\* the profile without its career fields
WithoutCareerFields == [user_data EXCEPT !.careerFields = NoCareerFields]

\* C16: when typical_majors holds a value and the user supplied at least one
\* career field, check_eligibility admits, as far as the career rule goes, if
\* and only if a career field is a substring of typical_majors or is a key of
\* the career table with a term that is a substring of typical_majors; the
\* list of career fields and the comma-separated string of the same entries
\* give the same verdict.
C16_CareerRule ==
    ( /\ pc = "checked"
      /\ Present(OrgField("typical_majors"))
      /\ UserCareerFields # <<>> ) =>
        /\ returned =
             ( /\ check_eligibility(Org, WithoutCareerFields)
               /\ \/ DirectCareerMatch(UserCareerFields, OrgField("typical_majors"))
                  \/ TableCareerMatch(UserCareerFields, OrgField("typical_majors")) )
        /\ user_data.careerFields.type = "list" =>
             returned = check_eligibility(Org,
                 [user_data EXCEPT !.careerFields = AsString(user_data.careerFields.value)])

\* C16's case: the comma-separated string of two career fields is admitted
\* through the career table alone
C16_Witness ==
    /\ pc = "checked"
    /\ Present(OrgField("typical_majors"))
    /\ user_data.careerFields.type = "str"
    /\ Len(UserCareerFields) = 2
    /\ ~ DirectCareerMatch(UserCareerFields, OrgField("typical_majors"))
    /\ returned = TRUE


\* the axes of the filter whose field the profile leaves empty
EmptyAxes ==
    { a \in {"gender", "race", "classification", "sexuality", "religion", "career"} :
        CASE a = "gender" -> UserGender = <<>>
          [] a = "race" -> UserRace = <<>>
          [] a = "classification" -> UserClassification = <<>>
          [] a = "sexuality" -> UserSexuality = <<>>
          [] a = "religion" -> UserReligion = <<>>
          [] a = "career" -> UserCareerFields = <<>> }

\* the fields of the organization that only the rules of `axes` read: the name
\* is read by the gender, classification and religion rules
FieldsOfAxes(axes) ==
    { f \in DOMAIN EmptyOrg :
        CASE f = "eligible_gender" -> "gender" \in axes
          [] f = "eligible_races" -> "race" \in axes
          [] f \in {"typical_classifications", "all_eligible_classifications"} ->
                 "classification" \in axes
          [] f = "eligible_sexuality" -> "sexuality" \in axes
          [] f = "bio" -> "religion" \in axes
          [] f = "typical_majors" -> "career" \in axes
          [] f = "name" -> {"gender", "classification", "religion"} \subseteq axes
          [] OTHER -> FALSE }

\* the organization without its data for `axes`
WithoutData(org, axes) ==
    [f \in DOMAIN org |-> IF f \in FieldsOfAxes(axes) THEN <<>> ELSE org[f]]

\* C17: the verdict of check_eligibility does not depend on the data the
\* organization holds for an axis whose field is empty in the profile, taken
\* one axis at a time or all together, and a profile with every field empty
\* admits every organization.
C17_EmptyFieldNeverRejects ==
    pc = "checked" =>
        /\ \A a \in EmptyAxes :
               returned = check_eligibility(WithoutData(Org, {a}), user_data)
        /\ returned = check_eligibility(WithoutData(Org, EmptyAxes), user_data)
        /\ EmptyAxes = {"gender", "race", "classification", "sexuality",
                        "religion", "career"} => returned = TRUE

\* C17's case: a profile with a gender and no religion is admitted to an
\* organization whose text matches the keywords of a religion
C17_Witness ==
    /\ pc = "checked"
    /\ UserGender # <<>>
    /\ "religion" \in EmptyAxes
    /\ \E i \in 1..Len(religious_keywords) :
           AnyIn(religious_keywords[i].keywords, OrgText)
    /\ WithoutData(Org, EmptyAxes) # Org
    /\ returned = TRUE

----------------------------------------------------------------------------
\* Claims about the scorer

\* no keyword is found in any of the five fields the scorer reads
NoKeywordMatch(org_row, keywords) ==
    \A k \in 1..Len(keywords) :
        \A f \in {"name", "typical_majors", "typical_activities",
                  "club_culture_style", "bio"} :
            ~ Contains(Lower(org_row[f]), Strip(Lower(keywords[k])))

\* no bonus triggers: neither the major bonus, nor a career field of the
\* user, nor the phrase, tech and competition bonuses
NoBonus(org_row, keywords, user) ==
    /\ major_match_bonus(ScorerMajor(user), Lower(org_row.typical_majors)) = DoubleZero
    /\ CareerFieldsScore(ScorerCareerFields(user),
                         Lower(org_row.typical_majors)).career_matches = 0
    /\ Bonuses(keywords, Lower(org_row.name), Lower(org_row.typical_majors),
               Lower(org_row.typical_activities), Lower(org_row.bio), 0, 0, 0)
           = <<0, 0, 0, 0, 0, 0>>

\* C18: an organization for which no keyword matches any of name,
\* typical_majors, typical_activities, club_culture_style and bio, and for
\* which no bonus triggers, gets the score 0 and is not in the results of the
\* search.
C18_NoMatchScoresZero ==
    Done =>
        \A i \in 1..Len(organizations) :
            ( /\ NoKeywordMatch(organizations[i], query_keywords)
              /\ NoBonus(organizations[i], query_keywords, user_data) ) =>
                /\ RowScore(i) = 0
                /\ \A k \in 1..Len(results) : results[k].index # i

\* C18's case: a search with keywords returns organizations and leaves out an
\* eligible one, without majors, that no keyword matches
C18_Witness ==
    /\ Done /\ query_keywords # <<>> /\ results # <<>>
    /\ \E i \in 1..Len(organizations) :
          /\ NoKeywordMatch(organizations[i], query_keywords)
          /\ NoBonus(organizations[i], query_keywords, user_data)
          /\ organizations[i].typical_majors = <<>>
          /\ user_data.given => RowEligible(i)

----------------------------------------------------------------------------
\* The scorer alone: calculate_relevance_score applied to one organization,
\* a list of keywords and a profile

MaxKeywords == 2

\* keywords of the career category ("engineering"), of the activity category
\* ("projects", "competitions"), of both ("social"), of the demographic
\* category ("freshman") and of none ("robotics")
ScoreKeywordPool ==
    { <<"e","n","g","i","n","e","e","r","i","n","g">>, <<"p","r","o","j","e","c","t","s">>, <<"s","o","c","i","a","l">>, <<"r","o","b","o","t","i","c","s">>, <<"f","r","e","s","h","m","a","n">>,
      <<"c","o","m","p","e","t","i","t","i","o","n","s">> }

\* lists of distinct keywords, as the tokenizer produces them
ScoreKeywordLists ==
    { l \in UNION { [1..n -> ScoreKeywordPool] : n \in 0..MaxKeywords } :
        \A i, j \in 1..Len(l) : l[i] = l[j] => i = j }

ScoreOrgs ==
    { [EmptyOrg EXCEPT !.name = <<"R","o","b","o","t","i","c","s"," ","C","l","u","b">>,
                       !.typical_majors = <<"E","n","g","i","n","e","e","r","i","n","g">>,
                       !.typical_activities = <<"C","o","m","p","e","t","i","t","i","o","n","s",","," ","P","r","o","j","e","c","t","s">>,
                       !.club_culture_style = <<"S","o","c","i","a","l">>,
                       !.bio = <<"W","e"," ","b","u","i","l","d"," ","r","o","b","o","t","s"," ","f","o","r"," ","e","n","g","i","n","e","e","r","i","n","g"," ","c","o","m","p","e","t","i","t","i","o","n","s">>],
      [EmptyOrg EXCEPT !.name = <<"D","e","s","i","g","n"," ","T","e","a","m">>,
                       !.typical_majors = <<"E","n","g","i","n","e","e","r","i","n","g"," ","P","r","o","j","e","c","t","s">>,
                       !.typical_activities = <<"E","n","g","i","n","e","e","r","i","n","g"," ","o","u","t","r","e","a","c","h",","," ","S","o","c","i","a","l"," ","e","v","e","n","t","s">>],
      [EmptyOrg EXCEPT !.name = <<"C","h","e","s","s"," ","C","l","u","b">>,
                       !.bio = <<"A"," ","s","o","c","i","a","l"," ","c","l","u","b"," ","f","o","r"," ","c","h","e","s","s"," ","p","l","a","y","e","r","s">>],
      [EmptyOrg EXCEPT !.name = <<"H","a","c","k"," ","C","l","u","b">>,
                       !.typical_majors = <<"n","a","n">>,
                       !.typical_activities = <<"W","o","r","k","s","h","o","p","s">>],
      [EmptyOrg EXCEPT !.name = <<"F","r","e","s","h","m","a","n"," ","C","o","u","n","c","i","l">>,
                       !.typical_majors = <<"S","o","c","i","a","l"," ","W","o","r","k",","," ","E","d","u","c","a","t","i","o","n">>,
                       !.club_culture_style = <<"F","r","e","s","h","m","a","n"," ","p","r","o","j","e","c","t","s">>],
      [EmptyOrg EXCEPT !.name = <<"B","o","o","k"," ","C","i","r","c","l","e">>,
                       !.typical_majors = <<"E","n","g","l","i","s","h">>,
                       !.typical_activities = <<"R","e","a","d","i","n","g">>] }

ScoreUsers ==
    { NoUser,
      Profile(TRUE, <<>>, <<>>, <<>>, <<>>, <<>>, NoCareerFields,
              <<"M","e","c","h","a","n","i","c","a","l"," ","E","n","g","i","n","e","e","r","i","n","g">>),
      Profile(TRUE, <<>>, <<>>, <<>>, <<>>, <<>>,
              [type |-> "list", value |-> << <<"E","n","g","i","n","e","e","r","i","n","g">>, <<"S","o","c","i","a","l"," ","W","o","r","k">> >>],
              <<>>) }

InitScore ==
    /\ query = <<>>
    /\ user_data \in ScoreUsers
    /\ organizations \in { <<o>> : o \in ScoreOrgs }
    /\ top_n = 0
    /\ pc = "start"
    /\ query_keywords \in ScoreKeywordLists
    /\ df_with_scores = <<>>
    /\ results = <<>>
    /\ calls = [score |-> 0, filter |-> 0]
    /\ returned = NoValue
    /\ locals = NoValue

\* score = calculate_relevance_score(org_row, query_keywords, user_data):
\* `locals` holds the local variables on reaching line 447, `returned` the
\* value of line 451
CalculateRelevanceScore ==
    /\ pc = "start"
    /\ locals' = ScoreLocals(organizations[1], query_keywords, user_data)
    /\ returned' = calculate_relevance_score(organizations[1], query_keywords,
                                             user_data)
    /\ pc' = "scored"
    /\ UNCHANGED <<query, user_data, organizations, top_n, query_keywords,
                   df_with_scores, results, calls>>

NextScore == CalculateRelevanceScore

SpecScore == InitScore /\ [][NextScore]_vars


\* the call of calculate_relevance_score has returned
Scored == pc = "scored"

\* the keyword is of the career category, of the activity category
CareerCategory(keyword) == AnyIn(career_keywords, Lower(keyword))
ActivityCategory(keyword) == AnyIn(activity_keywords, Lower(keyword))

\* the keyword is found in the field, which holds a value
Hit(keyword, field) ==
    /\ Lower(Org[field]) \notin { <<>>, <<"n","a","n">> }
    /\ Contains(Lower(Org[field]), Strip(Lower(keyword)))

\* C19: career_matches counts the career fields of the user matched in
\* typical_majors and the keywords of the career category found in
\* typical_majors; activity_matches counts the keywords of the activity
\* category found in typical_activities. A keyword of the activity category
\* alone found in typical_majors does not count in career_matches, nor does a
\* keyword of the career category alone found in typical_activities count in
\* activity_matches.
C19_CountersByCategory ==
    Scored =>
        /\ locals.career_matches =
               CareerFieldsScore(ScorerCareerFields(user_data),
                                 Lower(Org.typical_majors)).career_matches
               + Cardinality({ k \in 1..Len(query_keywords) :
                                 /\ CareerCategory(query_keywords[k])
                                 /\ Hit(query_keywords[k], "typical_majors") })
        /\ locals.activity_matches =
               Cardinality({ k \in 1..Len(query_keywords) :
                               /\ ActivityCategory(query_keywords[k])
                               /\ Hit(query_keywords[k], "typical_activities") })


\* n is the float v truncated toward zero (v is not negative)
TruncatedTo(v, n) ==
    /\ n \in Nat
    /\ DoubleGeq(v, FromInt(n))
    /\ ~ DoubleGeq(v, FromInt(n + 1))

\* C20: calculate_relevance_score returns the score accumulated up to line
\* 447, all bonuses included, truncated toward zero when career_matches > 0
\* or activity_matches > 0, and that score multiplied once by 0.7 and then
\* truncated toward zero when both counters are zero.
C20_PenaltyAndTruncation ==
    Scored =>
        IF locals.career_matches > 0 \/ locals.activity_matches > 0
        THEN TruncatedTo(locals.score, returned)
        ELSE TruncatedTo(DoubleMul(locals.score, Double_0_7), returned)

\* C20's case: no counter is above zero, a bonus was added to the score, and
\* the penalty lowers the value returned, which stays above zero
C20_Witness ==
    /\ Scored
    /\ locals.career_matches = 0 /\ locals.activity_matches = 0
    /\ locals.matches_count >= 2
    /\ returned > 0
    /\ ~ TruncatedTo(locals.score, returned)

----------------------------------------------------------------------------
\* Claims about whole invocations

\* the search of "Engineering | Competitions" by a male user in the table of
\* Robotics Club, Women's Business Network and Bio Club
ExampleSearch ==
    /\ organizations = <<OrgRobotics, OrgWomenBusiness, OrgBio>>
    /\ query = QueryEngineering
    /\ user_data.given /\ Lower(Strip(user_data.gender)) = <<"m","a","l","e">>

\* C21: for the table A = Robotics Club (majors Engineering, activities
\* Competitions, Workshops), B = Women's Business Network (eligible_gender
\* female), C = Bio Club (majors Biology), the query
\* "Engineering | Competitions" and a male user, the search returns exactly
\* one result, A; B is rejected by the filter and C, which the filter admits,
\* has the score 0.
C21_ExampleSearch ==
    (Done /\ ExampleSearch) =>
        /\ Len(results) = 1
        /\ results[1].index = 1 /\ results[1].name = <<"R","o","b","o","t","i","c","s"," ","C","l","u","b">>
        /\ results[1].relevance_score > 0
        /\ ~ RowEligible(2)
        /\ RowEligible(3) /\ RowScore(3) = 0

\* C21's case: the example search has returned, without a limit
C21_Witness == Done /\ ExampleSearch /\ top_n = 0 /\ results # <<>>

----------------------------------------------------------------------------
\* Two invocations of search_clubs in flight at once (two requests of the
\* threaded server). Every variable of an invocation is indexed by the
\* invocation; `locals` holds the data frames, `organizations` the data the
\* invocations share, and calls[p] tells whether the other invocation took a
\* step while p was in flight.

Invocations == {1, 2}

\* a frame shared by all invocations
FrameOf_Shared(p) == 1

\* line 456: `df = load_data(csv_path)` builds a frame of its own in each call
FrameOf(p) == p

\* tables with two rows of equal score and a row the filter may reject
ConcTables ==
    { <<OrgRobotics, OrgRocketry, o>> : o \in {OrgWomenBusiness, OrgWomenComputing} }

InitConc ==
    /\ query \in [Invocations -> {QueryEngineering, QueryClub}]
    /\ user_data \in { [p \in Invocations |-> NoUser],
                       [p \in Invocations |-> IF p = 1 THEN NoUser ELSE UserMale] }
    /\ top_n \in [Invocations -> {0, MaxTopN}]
    /\ organizations \in ConcTables
    /\ pc = [p \in Invocations |-> "start"]
    /\ query_keywords = [p \in Invocations |-> <<>>]
    /\ df_with_scores = [p \in Invocations |-> <<>>]
    /\ results = [p \in Invocations |-> <<>>]
    /\ calls = [p \in Invocations |-> FALSE]
    /\ returned = NoValue
    /\ locals = [f \in Invocations |-> NoValue]

\* invocation p takes a step from `from` to `to`; the invocations in flight
\* see that another one moved
Step(p, from, to) ==
    /\ pc[p] = from
    /\ pc' = [pc EXCEPT ![p] = to]
    /\ calls' = [q \in Invocations |->
                    calls[q] \/ (q # p /\ pc[q] \notin {"start", "done"})]
    /\ UNCHANGED <<query, user_data, organizations, top_n, returned>>

\* lines 456-459: load the table (the frame has no relevance_score yet: 0)
ConcLoad(p) ==
    /\ \E df \in { load_data(organizations) } :
          /\ Step(p, "start", IF Len(df) = 0 THEN "done" ELSE "loaded")
          /\ locals' = [locals EXCEPT ![FrameOf(p)] =
                           [df |-> df,
                            relevance_score |-> [i \in 1..Len(df) |-> 0],
                            rows |-> [i \in 1..Len(df) |-> i]]]
    /\ UNCHANGED <<query_keywords, df_with_scores, results>>

\* lines 461-503: the keywords of the query
ConcTokenize(p) ==
    /\ \E keywords \in { KeywordsOf[query[p]] } :
          /\ Step(p, "loaded", IF NoKeywords(keywords) THEN "done" ELSE "tokenized")
          /\ query_keywords' = [query_keywords EXCEPT ![p] = keywords]
    /\ UNCHANGED <<df_with_scores, results, locals>>

\* line 506: df['relevance_score'] = df.apply(...)
ConcScore(p) ==
    /\ Step(p, "tokenized", "scored")
    /\ locals' = [locals EXCEPT ![FrameOf(p)].relevance_score =
                     ScoreColumn(locals[FrameOf(p)].df, query_keywords[p], user_data[p])]
    /\ UNCHANGED <<query_keywords, df_with_scores, results>>

\* lines 509-511: the rows the filter keeps
ConcFilter(p) ==
    /\ Step(p, "scored", "filtered")
    /\ locals' = [locals EXCEPT ![FrameOf(p)].rows =
                     EligibleRows(locals[FrameOf(p)].df, user_data[p])]
    /\ UNCHANGED <<query_keywords, df_with_scores, results>>

\* lines 514-517: sort by score and keep the scores above zero
ConcSort(p) ==
    /\ Step(p, "filtered", "sorted")
    /\ \E df_sorted \in SortOutcomes(locals[FrameOf(p)].rows,
                                     locals[FrameOf(p)].relevance_score) :
          df_with_scores' = [df_with_scores EXCEPT ![p] =
              PositiveScores(df_sorted, locals[FrameOf(p)].relevance_score)]
    /\ UNCHANGED <<query_keywords, results, locals>>

\* the dictionaries of the rows `kept`, cut to n
ResultsOf(df, keywords, score, kept, n) ==
    [k \in 1..Len(Truncate(kept, n)) |->
        ResultRow(df, Truncate(kept, n)[k], score, keywords)]

\* lines 519-582: build and return the results
ConcReturn(p) ==
    /\ Step(p, "sorted", "done")
    /\ results' = [results EXCEPT ![p] =
                      ResultsOf(locals[FrameOf(p)].df, query_keywords[p],
                                locals[FrameOf(p)].relevance_score,
                                df_with_scores[p], top_n[p])]
    /\ UNCHANGED <<query_keywords, df_with_scores, locals>>

NextConc ==
    \E p \in Invocations :
        \/ ConcLoad(p)
        \/ ConcTokenize(p)
        \/ ConcScore(p)
        \/ ConcFilter(p)
        \/ ConcSort(p)
        \/ ConcReturn(p)

SpecConc == InitConc /\ [][NextConc]_vars

\* the result lists search_clubs may return when it runs alone
AloneResults(q, user, n, table) ==
    LET df == load_data(table)
        keywords == KeywordsOf[q]
        score == ScoreColumn(df, keywords, user)
    IN IF Len(df) = 0 \/ NoKeywords(keywords) THEN { <<>> }
       ELSE { ResultsOf(df, keywords, score, PositiveScores(df_sorted, score), n) :
                df_sorted \in SortOutcomes(EligibleRows(df, user), score) }

\* C22: an invocation that runs while another one takes its steps, in any
\* interleaving, returns a result list it may return when it runs alone.
C22_ConcurrentAsAlone ==
    \A p \in Invocations :
        pc[p] = "done" =>
            results[p] \in AloneResults(query[p], user_data[p], top_n[p], organizations)

\* C22's case: two invocations with different queries and profiles have
\* returned different results, each having seen the other take steps
C22_Witness ==
    /\ \A p \in Invocations : pc[p] = "done" /\ calls[p] /\ results[p] # <<>>
    /\ query[1] # query[2] /\ user_data[1] # user_data[2]
    /\ results[1] # results[2]

----------------------------------------------------------------------------
\* One search request through a front end: the Flask endpoint /search
\* (api_server.py), the serverless handler (api/search.py) or the JSON-file
\* mode of weighted_search.py. `locals` holds the request, the configuration
\* and the variables of load_data_from_supabase, `organizations` the rows of
\* the data source (row numbers stand for the rows), `calls` the calls of the
\* search core, `returned` the answer.

MaxPages == 2

\* row counts around the page boundaries
TableSizes ==
    { k * page_size + d : k \in 0..MaxPages, d \in {0, 1} } \cup { page_size - 1 }

\* the body of the request: text that is no JSON, the JSON null, or a JSON
\* object with or without the key "query" and with or without other keys
Bodies ==
    { [kind |-> "unparseable", has_query |-> FALSE, query |-> <<>>, other_keys |-> FALSE],
      [kind |-> "null", has_query |-> FALSE, query |-> <<>>, other_keys |-> FALSE],
      [kind |-> "object", has_query |-> FALSE, query |-> <<>>, other_keys |-> FALSE],
      [kind |-> "object", has_query |-> FALSE, query |-> <<>>, other_keys |-> TRUE],
      [kind |-> "object", has_query |-> TRUE, query |-> <<>>, other_keys |-> TRUE],
      [kind |-> "object", has_query |-> TRUE, query |-> QueryBlank, other_keys |-> FALSE],
      [kind |-> "object", has_query |-> TRUE, query |-> QueryClub, other_keys |-> TRUE] }

\* the front end, its data source, and whether the CSV file exists
FrontEnds ==
    { [front_end |-> "flask", data_source |-> "supabase", csv_exists |-> FALSE] }
    \cup { [front_end |-> f, data_source |-> "csv", csv_exists |-> e] :
             f \in {"flask", "serverless", "cli"}, e \in BOOLEAN }

InitApi ==
    /\ query = <<>>
    /\ user_data = NoUser
    /\ organizations \in { [i \in 1..n |-> i] : n \in TableSizes }
    /\ top_n = 0
    /\ pc = "start"
    /\ query_keywords = <<>>
    /\ df_with_scores = <<>>
    /\ results = <<>>
    /\ calls = [search_clubs |-> 0, search_clubs_supabase |-> 0]
    /\ returned = NoValue
    /\ locals \in { [config |-> c, body |-> b, offset |-> 0, all_data |-> <<>>,
                     requests |-> <<>>, failed |-> FALSE, df |-> <<>>] :
                      c \in FrontEnds, b \in Bodies }

\* a front end that does not look at the query
NotQuery_Unchecked(has_query, q) == FALSE

\* `if not query:` for query = data.get('query', '') or body.get('query')
NotQuery(has_query, q) == ~ has_query \/ q = <<>>

\* the answer of an error
ErrorAnswer(status) == [status |-> status, error |-> TRUE, results_from |-> <<>>]

\* the answer that carries the results of the search core: the core returns
\* [] for an empty frame or an empty keyword list (lines 458-459, 502-503,
\* 640-641, 679-680), and else the ranking of the rows of the frame, for
\* which the frame stands
ResultsAnswer(status, df, q) ==
    [status |-> status, error |-> FALSE,
     results_from |-> IF Len(df) = 0 \/ NoKeywords(KeywordsOf[q]) THEN <<>> ELSE df]

\* the status of success and of failure of a front end
StatusOk(front_end) == IF front_end = "cli" THEN "exit 0" ELSE "200"
StatusFailed(front_end) == IF front_end = "cli" THEN "exit 1" ELSE "500"
StatusRejected(front_end) == IF front_end = "cli" THEN "exit 1" ELSE "400"

\* api_server.py 75-88, api/search.py 17-30, weighted_search.py 794-803: read
\* the body and check the query
HandleRequest ==
    /\ pc = "start"
    /\ LET front_end == locals.config.front_end
           body == locals.body
           \* json.loads and get_json raise on text that is no JSON; the
           \* handlers of api/search.py and of the CLI call .get on the value
           raises == \/ body.kind = "unparseable"
                     \/ body.kind = "null" /\ front_end # "flask"
           \* api_server.py 77: `if not data`
           no_data == /\ front_end = "flask"
                      /\ \/ body.kind = "null"
                         \/ ~ body.has_query /\ ~ body.other_keys
       IN
       IF raises
       THEN /\ returned' = ErrorAnswer(StatusFailed(front_end))
            /\ pc' = "responded"
            /\ UNCHANGED <<query, calls>>
       ELSE IF no_data \/ NotQuery(body.has_query, body.query)
       THEN /\ returned' = ErrorAnswer(StatusRejected(front_end))
            /\ pc' = "responded"
            /\ UNCHANGED <<query, calls>>
       ELSE /\ query' = body.query
            /\ IF locals.config.data_source = "supabase"
               THEN /\ pc' = "loading"
                    /\ calls' = [calls EXCEPT !.search_clubs_supabase = @ + 1]
                    /\ UNCHANGED returned
               ELSE IF ~ locals.config.csv_exists /\ front_end # "cli"
               THEN /\ returned' = ErrorAnswer(StatusFailed(front_end))
                    /\ pc' = "responded"
                    /\ UNCHANGED calls
               ELSE /\ pc' = "reading"
                    /\ calls' = [calls EXCEPT !.search_clubs = @ + 1]
                    /\ UNCHANGED returned
    /\ UNCHANGED <<user_data, organizations, top_n, query_keywords,
                   df_with_scores, results, locals>>

\* a request of rows that reaches one row too far
RangeEnd_Overlapping(offset) == offset + page_size

\* line 599: .range(offset, offset + page_size - 1)
RangeEnd(offset) == offset + page_size - 1

\* the rows from..to of the table, both ends included and counted from 0
TableRange(rows, from, to) == SubSeq(rows, from + 1, Min(to + 1, Len(rows)))

\* lines 596-626 and 637-758, api_server.py 88-109: one turn of the loop of
\* load_data_from_supabase; the request of a page fails or gives its rows;
\* when the loop ends the search runs on the frame and the answer is sent
FetchPage ==
    /\ pc = "loading"
    /\ \E fails \in BOOLEAN :
         LET data == TableRange(organizations, locals.offset, RangeEnd(locals.offset))
             all_data == locals.all_data \o data
             requests == Append(locals.requests,
                                <<locals.offset, RangeEnd(locals.offset)>>)
         IN
         IF fails
         THEN \* lines 624-626: the exception is caught, an empty frame returned
              /\ locals' = [locals EXCEPT !.requests = requests, !.failed = TRUE,
                                          !.df = <<>>]
              /\ returned' = ResultsAnswer(StatusOk(locals.config.front_end),
                                           <<>>, query)
              /\ pc' = "responded"
         ELSE IF data = <<>> \/ Len(data) < page_size
         THEN /\ locals' = [locals EXCEPT !.requests = requests,
                                          !.all_data = all_data, !.df = all_data]
              /\ returned' = ResultsAnswer(StatusOk(locals.config.front_end),
                                           all_data, query)
              /\ pc' = "responded"
         ELSE /\ locals' = [locals EXCEPT !.requests = requests,
                                          !.all_data = all_data,
                                          !.offset = @ + page_size]
              /\ UNCHANGED <<returned, pc>>
    /\ UNCHANGED <<query, user_data, organizations, top_n, query_keywords,
                   df_with_scores, results, calls>>

\* lines 456-582 with api_server.py 98-109, api/search.py 46-66,
\* weighted_search.py 806-810: search_clubs on the CSV file; read_csv raises
\* when the file does not exist
SearchCsv ==
    /\ pc = "reading"
    /\ pc' = "responded"
    /\ IF ~ locals.config.csv_exists
       THEN /\ returned' = ErrorAnswer(StatusFailed(locals.config.front_end))
            /\ locals' = [locals EXCEPT !.failed = TRUE]
       ELSE /\ returned' = ResultsAnswer(StatusOk(locals.config.front_end),
                                         load_data(organizations), query)
            /\ locals' = [locals EXCEPT !.df = load_data(organizations)]
    /\ UNCHANGED <<query, user_data, organizations, top_n, query_keywords,
                   df_with_scores, results, calls>>

NextApi == HandleRequest \/ FetchPage \/ SearchCsv

SpecApi == InitApi /\ [][NextApi]_vars

\* a request that has started is carried to its end
FairSpecApi == SpecApi /\ WF_vars(NextApi)


\* the request is answered
Responded == pc = "responded"

\* the request carries no query, or an empty one
QueryMissingOrEmpty == ~ locals.body.has_query \/ locals.body.query = <<>>

\* C23: a request without a query or with an empty query never reaches
\* search_clubs or search_clubs_supabase; when its body is a JSON object, the
\* Flask endpoint and the serverless handler answer 400 and the JSON-file
\* mode of the script exits with an error.
C23_NoSearchWithoutQuery ==
    QueryMissingOrEmpty =>
        /\ calls.search_clubs = 0 /\ calls.search_clubs_supabase = 0
        /\ (Responded /\ locals.body.kind = "object") =>
               /\ returned.error
               /\ returned.status = StatusRejected(locals.config.front_end)

\* C23's case: the serverless handler has answered a JSON object that holds
\* an empty query
C23_Witness ==
    /\ Responded
    /\ locals.config.front_end = "serverless" /\ locals.config.csv_exists
    /\ locals.body.kind = "object" /\ locals.body.has_query
    /\ locals.body.query = <<>>
    /\ returned.status = "400"


\* C24: when the fetch of the organizations fails, at the first page or at a
\* later one, or the CSV file cannot be read, the request ends in an error
\* and not in a normal answer with an empty or partial list of results.
C24_LoadFailureIsError ==
    (Responded /\ locals.failed) => returned.error

\* the rows of the table in the order of the table, each once
AllRowsOnce(df, rows) == df = rows

\* the requests are consecutive ranges of page_size rows from row 0 on
ConsecutiveRanges(requests) ==
    \A i \in 1..Len(requests) :
        requests[i] = <<(i - 1) * page_size, i * page_size - 1>>

\* the load of the database table has gone through without a failure
LoadedFromTable ==
    /\ Responded /\ locals.config.data_source = "supabase"
    /\ calls.search_clubs_supabase = 1 /\ ~ locals.failed

\* C25: load_data_from_supabase terminates on every table, and when no
\* request fails it returns every row once in the order of the table, having
\* requested consecutive ranges of 1000 rows that do not overlap; a table of
\* 0 rows or of a multiple of 1000 rows ends the loop on the first empty page.
C25_LoaderTerminates ==
    /\ [](LoadedFromTable =>
            /\ AllRowsOnce(locals.df, organizations)
            /\ ConsecutiveRanges(locals.requests)
            /\ Len(locals.requests) = Len(organizations) \div page_size + 1)
    /\ (pc = "loading") ~> Responded

\* C25's case: a table of two full pages is loaded with three requests, the
\* last of which gives no row
C25_Witness ==
    /\ LoadedFromTable
    /\ Len(organizations) > page_size /\ Len(organizations) % page_size = 0
    /\ Len(locals.requests) = Len(organizations) \div page_size + 1


----------------------------------------------------------------------------
(* The two data sources, lines 453-582 against lines 629-758 *)

\* the result lists search_clubs_supabase may return on the rows of a table
SupabaseResults(q, user, n, table) ==
    LET df == load_data_from_supabase(table)
        keywords == KeywordsOf[q]
        score == ScoreColumn(df, keywords, user)
    IN IF Len(df) = 0 \/ NoKeywords(keywords) THEN { <<>> }
       ELSE { ResultsOf(df, keywords, score, PositiveScores(df_sorted, score), n) :
                df_sorted \in SortOutcomes(EligibleRows(df, user), score) }

----------------------------------------------------------------------------
(* vector_search.search_organizations, vector_search.py lines 150-223      *)
(* `organizations` are the rows of the CSV file, `locals` the variables of *)
(* the function. The embeddings come from a language model outside the     *)
(* repository: the similarity of a row is any value of a small range.      *)

\* the rows of the CSV file: the first rows of a list of organizations
VectorPool == <<OrgRobotics, OrgWomenBusiness, OrgBio, OrgWomenComputing, OrgRocketry>>

VectorTables == { SubSeq(VectorPool, 1, n) : n \in 0..MaxOrgs }

VectorUsers == { UserBlank, UserMale, UserFemaleEngineer }

InitVector ==
    /\ query = <<>>
    /\ user_data \in VectorUsers
    /\ organizations \in VectorTables
    /\ top_n \in 0..MaxTopN
    /\ pc = "start"
    /\ query_keywords = <<>>
    /\ df_with_scores = <<>>
    /\ results = <<>>
    /\ calls = NoValue
    /\ returned = NoValue
    /\ locals = NoValue

\* lines 154-203: load the rows, score them against the query and sort them by
\* similarity_score, highest first
VectorRank ==
    /\ pc = "start"
    /\ IF Len(organizations) = 0
       THEN /\ results' = <<>>
            /\ pc' = "vector_done"
            /\ UNCHANGED locals
       ELSE \E similarity_score \in [1..Len(organizations) -> 1..Len(organizations)] :
            \E df_sorted \in SortOutcomes([i \in 1..Len(organizations) |-> i],
                                          similarity_score) :
               /\ locals' = [similarity_score |-> similarity_score,
                             df_sorted |-> df_sorted,
                             position |-> 1,
                             filtered_results |-> <<>>]
               /\ pc' = "vector_loop"
               /\ UNCHANGED results
    /\ UNCHANGED <<query, user_data, organizations, top_n, query_keywords,
                   df_with_scores, calls, returned>>

\* lines 205-223: one turn of the loop over the sorted rows; the function
\* returns after the break or after the last row
VectorLoop ==
    /\ pc = "vector_loop"
    /\ LET i == locals.df_sorted[locals.position]
           eligible == vector_check_eligibility(organizations[i], user_data)
           filtered_results ==
               IF eligible
               THEN Append(locals.filtered_results,
                           [index |-> i, name |-> organizations[i].name,
                            similarity_score |-> locals.similarity_score[i]])
               ELSE locals.filtered_results
           \* lines 219-220: the test follows the append
           break == eligible /\ Len(filtered_results) >= top_n
       IN
       /\ locals' = [locals EXCEPT !.filtered_results = filtered_results,
                                   !.position = @ + 1]
       /\ IF break \/ locals.position = Len(locals.df_sorted)
          THEN /\ results' = filtered_results
               /\ pc' = "vector_done"
          ELSE UNCHANGED <<results, pc>>
    /\ UNCHANGED <<query, user_data, organizations, top_n, query_keywords,
                   df_with_scores, calls, returned>>

NextVector == VectorRank \/ VectorLoop

SpecVector == InitVector /\ [][NextVector]_vars

\* the index labels of the eligible rows, highest similarity first, as sorted
VectorEligible ==
    SelectSeq(locals.df_sorted,
              LAMBDA i : vector_check_eligibility(organizations[i], user_data))

VectorDone == pc = "vector_done" /\ Len(organizations) > 0

\* C27: search_organizations returns exactly min(top_n, E) results for every
\* top_n >= 0, E being the number of eligible rows: the eligible rows of
\* highest similarity in descending order, and never more than top_n.
C27_FilterBeforeTruncate ==
    VectorDone =>
        /\ Len(results) = Min(top_n, Len(VectorEligible))
        /\ Len(results) <= top_n
        /\ \A k \in 1..Len(results) : results[k].index = VectorEligible[k]
        /\ \A k \in 1..(Len(results) - 1) :
               results[k].similarity_score >= results[k + 1].similarity_score

\* the same for a limit of at least one row
C27_PositiveLimit == top_n > 0 => C27_FilterBeforeTruncate


----------------------------------------------------------------------------
(* The sign of the score, lines 233-451 and 517 *)

\* lines 311-445: the values the `score +=` statements of a call add, in the
\* order of the statements (0 for a statement that does not run); the tier
\* bonuses are those of the counters the call has reached
ScoreAdded(org_row, keywords, user) ==
    LET name == Lower(org_row.name)
        typical_majors == Lower(org_row.typical_majors)
        typical_activities == Lower(org_row.typical_activities)
        club_culture_style == Lower(org_row.club_culture_style)
        bio == Lower(org_row.bio)
        fromCareer == CareerFieldsScore(ScorerCareerFields(user), typical_majors)
        perKeyword == [i \in 1..Len(keywords) |->
                          KeywordScore(keywords[i], name, typical_majors,
                                       typical_activities, club_culture_style, bio)]
        bonuses == Bonuses(keywords, name, typical_majors, typical_activities,
                           bio, locals.career_matches, locals.activity_matches,
                           locals.matches_count)
    IN <<major_match_bonus(ScorerMajor(user), typical_majors)>>
       \o fromCareer.added
       \o Flatten([i \in 1..Len(keywords) |-> perKeyword[i].added])
       \o [i \in 1..Len(bonuses) |-> FromInt(bonuses[i])]

\* the values added by the call that is checked
Added == ScoreAdded(organizations[1], query_keywords, user_data)

\* the score before the first and after each `score +=` statement
RECURSIVE PartialSums(_, _)
PartialSums(score, added) ==
    IF added = <<>> THEN <<score>>
    ELSE <<score>> \o PartialSums(DoubleAdd(score, Head(added)), Tail(added))

Accumulated == PartialSums(DoubleZero, Added)

\* C28: calculate_relevance_score never returns a negative number: the score
\* is at least 0 after every addition and never decreases before the penalty,
\* and the value returned is a natural number, so a score that is not above
\* zero (the rows line 517 removes) is exactly 0.
C28_ScoreNeverNegative ==
    Scored =>
        /\ LET sums == Accumulated IN
           /\ \A k \in 1..Len(sums) : DoubleGeq(sums[k], DoubleZero)
           /\ \A k \in 2..Len(sums) : DoubleGeq(sums[k], sums[k - 1])
           /\ sums[Len(sums)] = locals.score
        /\ returned >= 0
        /\ ~ (returned > 0) => returned = 0

\* C28's case: a call that added to the score several times, had the penalty
\* applied and returned a smaller, positive number
C28_Witness ==
    /\ Scored
    /\ LET sums == Accumulated IN
       \E k \in 2..(Len(sums) - 1) : sums[k] # DoubleZero /\ sums[k + 1] # sums[k]
    /\ locals.career_matches = 0 /\ locals.activity_matches = 0
    /\ returned > 0 /\ returned < DoubleToInt(locals.score)


----------------------------------------------------------------------------
(* The migration script, migrate_csv_to_supabase.py                        *)
(* `organizations` are the rows of final.csv, `results` the rows of the    *)
(* organizations table in the database (0 is a row from before the         *)
(* migration, i > 0 the i-th row of the CSV file), `calls` the requests    *)
(* sent to the database in the order they were sent, `locals` the          *)
(* variables of main and of migrate_to_supabase. migrate_to_supabase is    *)
(* run with small values of its parameter batch_size (100 by default). An  *)
(* insert that fails stores none of its rows.                              *)

MaxBatchSize == 2

\* lines 71-78: None (here the empty string) for an empty cell, 'nan', 'none'
clean_value(value) ==
    IF Lower(Strip(value)) \in { <<"n","a","n">>, <<"n","o","n","e">>, <<>> } THEN <<>> ELSE Strip(value)

\* lines 81-100: the rows of the file that have a name
load_csv_data(rows) == SelectSeq(rows, LAMBDA org : clean_value(org.name) # <<>>)

\* the rows of a CSV file
CsvRow(i, name) == [row |-> i, name |-> name]

CsvFiles ==
    { [i \in 1..n |-> CsvRow(i, <<"C","h","e","s","s"," ","C","l","u","b">>)] : n \in 0..(2 * MaxBatchSize) }
    \cup { <<CsvRow(1, <<" ","N","a","N"," ">>)>>,
           <<CsvRow(1, <<>>), CsvRow(2, <<"C","h","e","s","s"," ","C","l","u","b">>), CsvRow(3, <<"n","o","n","e">>)>> }

\* what the script finds when it starts: at most one thing is missing
Environments ==
    { [url |-> u, key |-> k, csv_exists |-> c, connects |-> n] :
        u, k, c, n \in BOOLEAN } \ 
    { e \in [url : BOOLEAN, key : BOOLEAN, csv_exists : BOOLEAN, connects : BOOLEAN] :
        Cardinality({ f \in {"url", "key", "csv_exists", "connects"} : ~ e[f] }) > 1 }

\* what the operator types at the prompt
Answers == { <<"y","e","s">>, <<"Y","E","S">>, <<" ","Y","e","s"," ">>, <<"n","o">>, <<"y">>, <<"y","e","s"," ","p","l","e","a","s","e">>, <<>> }

InitMigrate ==
    /\ query = <<>>
    /\ user_data = NoUser
    /\ organizations \in CsvFiles
    /\ top_n = 0
    /\ pc = "start"
    /\ query_keywords = <<>>
    /\ df_with_scores = <<>>
    /\ results = <<0>>
    /\ calls = <<>>
    /\ returned = NoValue
    /\ locals \in { [env |-> e, batch_size |-> b, organizations |-> <<>>,
                     asked |-> FALSE, answer |-> <<>>, i |-> 0, j |-> 0,
                     migrated |-> 0, errors |-> <<>>] :
                      e \in Environments, b \in 1..MaxBatchSize }

\* a request to the database and whether it went through
Request(op, rows, ok) == [op |-> op, rows |-> rows, ok |-> ok]

\* lines 157-196: the checks of main before the prompt
CheckEnvironment ==
    /\ pc = "start"
    /\ IF ~ locals.env.url \/ ~ locals.env.key \/ ~ locals.env.csv_exists
          \/ ~ locals.env.connects
       THEN /\ pc' = "exit 1"
            /\ UNCHANGED locals
       ELSE IF load_csv_data(organizations) = <<>>
       THEN /\ pc' = "exit 1"
            /\ UNCHANGED locals
       ELSE /\ pc' = "prompt"
            /\ locals' = [locals EXCEPT !.organizations = load_csv_data(organizations)]
    /\ UNCHANGED <<query, user_data, organizations, top_n, query_keywords,
                   df_with_scores, results, calls, returned>>

\* a prompt that goes on unless the answer is no
Confirmed_UnlessNo(answer) == Lower(Strip(answer)) # <<"n","o">>

\* lines 202-204: input(...).strip().lower() against 'yes'
Confirmed(answer) == Lower(Strip(answer)) = <<"y","e","s">>

\* lines 198-206: the confirmation prompt
Confirm ==
    /\ pc = "prompt"
    /\ \E answer \in Answers :
         /\ locals' = [locals EXCEPT !.asked = TRUE, !.answer = answer]
         /\ pc' = IF Confirmed(answer) THEN "clearing" ELSE "exit 0"
    /\ UNCHANGED <<query, user_data, organizations, top_n, query_keywords,
                   df_with_scores, results, calls, returned>>

\* lines 141-149 and 209: clear_existing_data; a delete that fails is reported
\* as a warning and the migration goes on
ClearExistingData ==
    /\ pc = "clearing"
    /\ \E ok \in BOOLEAN :
         /\ calls' = Append(calls, Request("delete", <<>>, ok))
         /\ results' = IF ok THEN <<>> ELSE results
    /\ pc' = "migrating"
    /\ UNCHANGED <<query, user_data, organizations, top_n, query_keywords,
                   df_with_scores, returned, locals>>

\* a batch that reaches one row into the next batch
BatchOf_Overlapping(orgs, i, batch_size) ==
    SubSeq(orgs, i + 1, Min(i + batch_size + 1, Len(orgs)))

\* line 112: organizations[i:i + batch_size]
BatchOf(orgs, i, batch_size) == SubSeq(orgs, i + 1, Min(i + batch_size, Len(orgs)))

\* the row numbers of a list of organizations
RowsOf(orgs) == [k \in 1..Len(orgs) |-> orgs[k].row]

\* lines 111-129: one turn of the loop over the batches, up to the outcome of
\* the insert of the batch
InsertBatch ==
    /\ pc = "migrating"
    /\ locals.i < Len(locals.organizations)
    /\ LET batch == BatchOf(locals.organizations, locals.i, locals.batch_size) IN
       \E ok \in BOOLEAN :
         /\ calls' = Append(calls, Request("insert_batch", RowsOf(batch), ok))
         /\ IF ok
            THEN /\ results' = results \o RowsOf(batch)
                 /\ locals' = [locals EXCEPT !.migrated = @ + Len(batch),
                                             !.i = @ + locals.batch_size]
                 /\ UNCHANGED pc
            ELSE /\ locals' = [locals EXCEPT
                                 !.errors = Append(@, [batch |-> locals.i \div locals.batch_size + 1,
                                                       start_index |-> locals.i]),
                                 !.j = 0]
                 /\ pc' = "one_by_one"
                 /\ UNCHANGED results
    /\ UNCHANGED <<query, user_data, organizations, top_n, query_keywords,
                   df_with_scores, returned>>

\* lines 131-136: the insert of one row of a batch that failed
InsertRow ==
    /\ pc = "one_by_one"
    /\ LET batch == BatchOf(locals.organizations, locals.i, locals.batch_size)
           org == batch[locals.j + 1]
           last == locals.j + 1 = Len(batch)
       IN
       \E ok \in BOOLEAN :
         /\ calls' = Append(calls, Request("insert_row", <<org.row>>, ok))
         /\ results' = IF ok THEN Append(results, org.row) ELSE results
         /\ locals' = [locals EXCEPT
                         !.migrated = IF ok THEN @ + 1 ELSE @,
                         !.j = IF last THEN 0 ELSE @ + 1,
                         !.i = IF last THEN @ + locals.batch_size ELSE @]
         /\ pc' = IF last THEN "migrating" ELSE pc
    /\ UNCHANGED <<query, user_data, organizations, top_n, query_keywords,
                   df_with_scores, returned>>

\* line 138: return migrated, errors
ReturnMigrated ==
    /\ pc = "migrating"
    /\ locals.i >= Len(locals.organizations)
    /\ returned' = [migrated |-> locals.migrated, errors |-> locals.errors]
    /\ pc' = "migrated"
    /\ UNCHANGED <<query, user_data, organizations, top_n, query_keywords,
                   df_with_scores, results, calls, locals>>

NextMigrate ==
    \/ CheckEnvironment
    \/ Confirm
    \/ ClearExistingData
    \/ InsertBatch
    \/ InsertRow
    \/ ReturnMigrated

SpecMigrate == InitMigrate /\ [][NextMigrate]_vars


\* the script has stopped
MigrationOver == pc \in {"exit 0", "exit 1", "migrated"}

\* nothing was deleted or inserted
Untouched == calls = <<>> /\ results = <<0>>

\* credentials, the CSV file and an organization with a name are there
ReadyToMigrate ==
    /\ locals.env.url /\ locals.env.key /\ locals.env.csv_exists
    /\ load_csv_data(organizations) # <<>>

\* the requests that insert
Inserts == { k \in 1..Len(calls) : calls[k].op # "delete" }

\* C29: the table is cleared and rows are inserted only after the operator
\* answers exactly "yes" and only when credentials, CSV file and a non-empty
\* list of organizations are present; on any other answer nothing is deleted
\* or inserted; the table is cleared before the first insert.
C29_OnlyAfterExactYes ==
    /\ calls # <<>> => locals.asked /\ locals.answer = <<"y","e","s">> /\ ReadyToMigrate
    /\ (locals.asked /\ locals.answer # <<"y","e","s">>) => Untouched
    /\ Inserts # {} => calls[1].op = "delete" /\ calls[1].ok

\* the operator was asked and typed yes, in any case and with any white space
\* around it
AnsweredYes == locals.asked /\ Lower(Strip(locals.answer)) = <<"y","e","s">>

\* C29 as the code has it: the answer counts as yes whatever its case and the
\* white space around it, and the request that clears the table is sent once,
\* before the first insert, whether or not it goes through (a delete that
\* fails leaves the rows in the table and the inserts follow).
C29_OnlyAfterYes ==
    /\ calls # <<>> => AnsweredYes /\ ReadyToMigrate
    /\ (locals.asked /\ ~ AnsweredYes) => Untouched /\ pc = "exit 0"
    /\ ~ ReadyToMigrate \/ ~ locals.env.connects => Untouched /\ ~ locals.asked
    /\ Inserts # {} =>
          /\ calls[1].op = "delete"
          /\ \A k \in Inserts : k > 1
          /\ calls[1].ok => 0 \notin Range(results)

\* C29's case: the operator typed the word in capitals, the delete failed and
\* rows were inserted after it
C29_Witness ==
    /\ pc = "migrated"
    /\ locals.answer = <<"Y","E","S">>
    /\ ~ calls[1].ok
    /\ \E k \in Inserts : calls[k].ok
    /\ 0 \in Range(results)


\* migrate_to_supabase has returned
Migrated == pc = "migrated"

\* the requests of one kind that hold the row
RequestsWith(op, row) ==
    { k \in 1..Len(calls) : calls[k].op = op /\ row \in Range(calls[k].rows) }

\* the number of times the row is in the table
TimesStored(row) == Cardinality({ k \in 1..Len(results) : results[k] = row })

\* the rows of the CSV file that are in the table
Stored == { row \in Range(RowsOf(locals.organizations)) : TimesStored(row) > 0 }

\* the batch inserts that failed
FailedBatches == { k \in 1..Len(calls) : calls[k].op = "insert_batch" /\ ~ calls[k].ok }

\* C30: migrate_to_supabase sends every organization in exactly one batch
\* insert and, only if that insert fails, once more in an insert of its own;
\* the count it returns is the number of organizations stored, none of them
\* twice and never more than the total, and errors has one entry for each
\* batch insert that failed.
C30_EveryOrganizationAttempted ==
    Migrated =>
        /\ \A row \in Range(RowsOf(locals.organizations)) :
              /\ Cardinality(RequestsWith("insert_batch", row)) = 1
              /\ Cardinality(RequestsWith("insert_row", row)) =
                    IF \E k \in RequestsWith("insert_batch", row) : ~ calls[k].ok
                    THEN 1 ELSE 0
              /\ TimesStored(row) <= 1
        /\ returned.migrated = Cardinality(Stored)
        /\ returned.migrated <= Len(locals.organizations)
        /\ Len(returned.errors) = Cardinality(FailedBatches)
        /\ \A e, f \in 1..Len(returned.errors) :
              e # f => returned.errors[e].batch # returned.errors[f].batch

\* C30's case: of several batches one failed, and of its rows one was stored
\* by its own insert and one was not
C30_Witness ==
    /\ Migrated
    /\ Cardinality(FailedBatches) = 1
    /\ \E k \in 1..Len(calls) : calls[k].op = "insert_batch" /\ calls[k].ok
    /\ \E k, l \in 1..Len(calls) :
          /\ calls[k].op = "insert_row" /\ calls[k].ok
          /\ calls[l].op = "insert_row" /\ ~ calls[l].ok
    /\ returned.migrated < Len(locals.organizations)

============================================================================
